---- MODULE Spec2Model ----
(***************************************************************************)
(* The Acurast marketplace pallet (pallets/marketplace/src/lib.rs) and the *)
(* job registry of pallet_acurast (pallets/acurast/src/lib.rs) as a state  *)
(* machine.  The storage maps are the variables; every extrinsic is one    *)
(* action that performs the whole body of the function, statement by       *)
(* statement.  Inside a function a storage write takes effect where the    *)
(* source performs it, and an error returned later by `?` or `ensure!`     *)
(* does not undo it.  The functions under #[pallet::call] are dispatchables:*)
(* each runs in a storage layer that is committed when the function        *)
(* returns Ok and discarded when it returns Err (with_storage_layer).      *)
(*                                                                         *)
(* An extrinsic is an operator from the stores and the arguments to the    *)
(* result of the call: the error (or Ok) and the stores as the call leaves *)
(* them.  The stores carry the events deposited (ev, part of the storage)  *)
(* and the calls made on T::RewardManager (pay, a log of invocations that  *)
(* a discarded storage layer does not erase).  The action of an extrinsic  *)
(* installs the stores of the result.                                      *)
(*                                                                         *)
(* Time is in abstract milliseconds, amounts in abstract asset units.      *)
(* Option<T> is a sequence: <<>> is None, <<x>> is Some(x).                *)
(***************************************************************************)
EXTENDS Integers, Sequences, FiniteSets, TLC

VARIABLES
    now,                            \* T::UnixTime::now(), in milliseconds
    StoredJobRegistration,          \* job id -> Option<JobRegistration>
    StoredJobStatus,                \* job id -> Option<JobStatus>
    StoredAdvertisementRestriction, \* source -> Option<AdvertisementRestriction>
    StoredAdvertisementPricing,     \* source -> asset -> Option<PricingVariant>
    StoredStorageCapacity,          \* source -> Option<i64>
    StoredMatches,                  \* source -> job id -> Option<Assignment>
    CommittedPricing,               \* source -> the assets whose pricing key an
                                    \* earlier block has committed to the backend
    OverlaidPricing                 \* source -> the committed pricing keys that
                                    \* the current block has written or removed

vars == << now, StoredJobRegistration, StoredJobStatus, StoredAdvertisementRestriction,
           StoredAdvertisementPricing, StoredStorageCapacity, StoredMatches,
           CommittedPricing, OverlaidPricing >>

----------------------------------------------------------------------------
(* Bounds of the model *)

MaxTime == 1          \* the clock stops advancing here
U64_MAX == 65535      \* largest value of a u64, scaled down to 16 bits
I64_MAX == 32767      \* largest value of an i64, scaled down to 16 bits
AMOUNT_MAX == 1048575 \* largest value of an AssetAmount, scaled down to 20 bits
MaxMatches == 2       \* longest list of matches in one propose_matching

I64_MIN == 0 - I64_MAX - 1

None == << >>
Some(x) == << x >>
IsSome(o) == o # << >>
Unwrap(o) == o[1]

OK == "Ok"

\* let r = value; F(r)
With(value, F(_)) == F(value)

----------------------------------------------------------------------------
(* Accounts, job ids and assets *)

Providers == {"p1", "p2"}
Consumers == {"c1", "c2"}
Matchers == {"m1"}
Scripts == {"s1"}

\* the bound of Advertisement.pricing and the limit that delete_advertisement
\* passes to clear_prefix
MAX_PRICING_VARIANTS == 100

\* the order in which clear_prefix walks the pricing variants of a source (the
\* order of the hashed storage keys, fixed for a given set of keys); there is
\* one asset more than MAX_PRICING_VARIANTS
AssetOrder == [ i \in 1..(MAX_PRICING_VARIANTS + 1) |-> "a" \o ToString(i) ]

Assets == { AssetOrder[i] : i \in 1..Len(AssetOrder) }

\* JobId<AccountId> = (AccountId, Script)
JobIds == Consumers \X Scripts

\* the order in which iter_prefix walks the jobs of a source (the order of the
\* hashed storage keys, fixed for a given set of keys)
JobOrder == << <<"c1", "s1">>, <<"c2", "s1">> >>

----------------------------------------------------------------------------
(* Checked arithmetic: <<>> on overflow *)

checked_add(a, b) == IF a + b > U64_MAX THEN None ELSE Some(a + b)
checked_mul(a, b) == IF b # 0 /\ a > U64_MAX \div b THEN None ELSE Some(a * b)

amount_checked_add(a, b) == IF a + b > AMOUNT_MAX THEN None ELSE Some(a + b)
amount_checked_mul(a, b) == IF b # 0 /\ a > AMOUNT_MAX \div b THEN None ELSE Some(a * b)
amount_checked_sub(a, b) == IF a - b < 0 THEN None ELSE Some(a - b)

i64_checked_add(a, b) ==
    IF a + b > I64_MAX \/ a + b < I64_MIN THEN None ELSE Some(a + b)
i64_checked_sub(a, b) ==
    IF a - b > I64_MAX \/ a - b < I64_MIN THEN None ELSE Some(a - b)

unwrap_or(o, d) == IF IsSome(o) THEN Unwrap(o) ELSE d

----------------------------------------------------------------------------
(* Schedule engine (spec.md 4.1) *)

\* number of executions: the starts start_time, start_time + interval, ...
\* that lie before end_time
execution_count(schedule) ==
    IF schedule.interval = 0 \/ schedule.end_time - schedule.start_time - 1 < 0
    THEN 0
    ELSE ((schedule.end_time - schedule.start_time - 1) \div schedule.interval) + 1

\* the execution starts, each offset by start_delay; <<>> (None) when the
\* delayed period overflows
RECURSIVE schedule_iter_from(_, _, _)
schedule_iter_from(current, delayed_end_time, interval) ==
    IF current >= delayed_end_time THEN << >>
    ELSE << current >> \o
         (IF IsSome(checked_add(current, interval)) /\ interval > 0
          THEN schedule_iter_from(current + interval, delayed_end_time, interval)
          ELSE << >>)

schedule_iter(schedule, start_delay) ==
    LET delayed_start_time == checked_add(schedule.start_time, start_delay)
        delayed_end_time == checked_add(schedule.end_time, start_delay)
    IN IF ~IsSome(delayed_start_time) \/ ~IsSome(delayed_end_time) THEN None
       ELSE Some(schedule_iter_from(Unwrap(delayed_start_time),
                                    Unwrap(delayed_end_time), schedule.interval))

\* Some(TRUE) iff an execution [start, start + duration) meets the window
\* [window_start, window_end]; None on overflow
schedule_overlaps(schedule, start_delay, window_start, window_end) ==
    LET it == schedule_iter(schedule, start_delay)
    IN IF ~IsSome(it) THEN None
       ELSE IF \E i \in 1..Len(Unwrap(it)) :
                   ~IsSome(checked_add(Unwrap(it)[i], schedule.duration))
            THEN None
            ELSE Some(\E i \in 1..Len(Unwrap(it)) :
                         /\ Unwrap(it)[i] <= window_end
                         /\ window_start < Unwrap(it)[i] + schedule.duration)

----------------------------------------------------------------------------
(* Collaborators of the pallet *)

\* T::AssetValidator::validate(asset).is_ok(): st.refused are the assets the
\* configured validator refuses; PassAllAssets, the validator of the runtime,
\* refuses none
validate(st, asset) == asset \notin st.refused

\* pallet_acurast::utils::ensure_source_verified(source).is_ok()
VerifiedSources == {"p1"}
ensure_source_verified(source) == source \in VerifiedSources

\* T::ReportTolerance
ReportTolerance == 1

----------------------------------------------------------------------------
(* Whitelists (utils.rs); a list is Some(sequence of accounts), in which an *)
(* account may occur several times, or None                                 *)

is_consumer_whitelisted(consumer, allowed_consumers) ==
    IF IsSome(allowed_consumers)
    THEN \E k \in 1..Len(Unwrap(allowed_consumers)) : Unwrap(allowed_consumers)[k] = consumer
    ELSE TRUE

is_source_whitelisted_or_any(source, registration) == TRUE

is_source_whitelisted(source, registration) ==
    IF IsSome(registration.allowed_sources)
    THEN \E k \in 1..Len(Unwrap(registration.allowed_sources)) :
            Unwrap(registration.allowed_sources)[k] = source
    ELSE TRUE

----------------------------------------------------------------------------
(* Pricing calculator *)

requirements_of(registration) == registration.extra

\* reward amount * slots * execution_count, checked; <<>> on overflow
total_reward_amount(registration) ==
    LET requirements == requirements_of(registration)
        a == amount_checked_mul(requirements.reward.amount, requirements.slots)
    IN IF ~IsSome(a) THEN None
       ELSE amount_checked_mul(Unwrap(a), execution_count(registration.schedule))

\* fee_per_millisecond * duration + fee_per_storage_byte * storage
\*   + base_fee_per_execution, checked; <<>> on overflow
fee_per_execution_wrapping(registration, pricing) ==
    Some((pricing.fee_per_millisecond * registration.schedule.duration
            + pricing.fee_per_storage_byte * registration.storage
            + pricing.base_fee_per_execution) % (AMOUNT_MAX + 1))

fee_per_execution(registration, pricing) ==
    LET a == amount_checked_mul(pricing.fee_per_millisecond, registration.schedule.duration)
        b == amount_checked_mul(pricing.fee_per_storage_byte, registration.storage)
        c == IF IsSome(a) /\ IsSome(b) THEN amount_checked_add(Unwrap(a), Unwrap(b)) ELSE None
    IN IF ~IsSome(c) THEN None
       ELSE amount_checked_add(Unwrap(c), pricing.base_fee_per_execution)

----------------------------------------------------------------------------
(* The storage of both pallets as one record, threaded through the helpers *)

Stores ==
    [ reg      |-> StoredJobRegistration,
      status   |-> StoredJobStatus,
      ad       |-> StoredAdvertisementRestriction,
      pricing  |-> StoredAdvertisementPricing,
      cap      |-> StoredStorageCapacity,
      matches  |-> StoredMatches,
      committed |-> CommittedPricing,
      overlaid |-> OverlaidPricing,
      ev       |-> << >>,
      pay      |-> << >>,
      refused  |-> {} ]

Open == [tag |-> "Open", count |-> 0]
Matched == [tag |-> "Matched", count |-> 0]
Assigned(n) == [tag |-> "Assigned", count |-> n]

deposit_event(st, e) == [st EXCEPT !.ev = Append(@, e)]

\* a dispatchable whose writes stay when it returns Err
without_storage_layer(st, r) == r

\* #[pallet::call]: the dispatchable ran on the stores st and returned r; its
\* writes (the events among them) are kept on Ok and discarded on Err
with_storage_layer(st, r) ==
    IF r.err = OK THEN r
    ELSE [err |-> r.err, st |-> [st EXCEPT !.pay = r.st.pay]]

\* has_matches: the source has at least one entry in StoredMatches
has_matches_never(st, source) == FALSE

has_matches(st, source) == \E job \in JobIds : IsSome(st.matches[source][job])

----------------------------------------------------------------------------
(* fits_schedule *)

\* the executions of a schedule as Option<(start, end)> items, where
\* end = start.checked_add(interval)
bounds_of(starts, interval) ==
    [i \in 1..Len(starts) |->
        IF IsSome(checked_add(starts[i], interval))
        THEN Some([start |-> starts[i], end |-> starts[i] + interval])
        ELSE None]

\* Ord of Option<(u64, u64)>: None first, then lexicographic
item_le(x, y) ==
    \/ ~IsSome(x)
    \/ /\ IsSome(y)
       /\ \/ Unwrap(x).start < Unwrap(y).start
          \/ Unwrap(x).start = Unwrap(y).start /\ Unwrap(x).end <= Unwrap(y).end

\* Itertools::merge of two sorted sequences
RECURSIVE merge(_, _)
merge(a, b) ==
    IF a = << >> THEN b
    ELSE IF b = << >> THEN a
    ELSE IF item_le(Head(a), Head(b)) THEN << Head(a) >> \o merge(Tail(a), b)
    ELSE << Head(b) >> \o merge(a, Tail(b))

\* try_fold(0, |prev_end, bounds| ...) from item i on
RECURSIVE fold_bounds(_, _, _)
fold_bounds(items, i, prev_end) ==
    IF i > Len(items) THEN OK
    ELSE IF ~IsSome(items[i]) THEN "CalculationOverflow"
    ELSE IF prev_end > Unwrap(items[i]).start THEN "ScheduleOverlapInMatch"
    ELSE fold_bounds(items, i + 1, Unwrap(items[i]).end)

\* the body of the loop of fits_schedule for one (job_id, assignment)
fits_one_comparing_always(st, job_id, assignment, schedule, start_delay) ==
    IF ~IsSome(st.reg[job_id]) THEN "JobRegistrationNotFound"
    ELSE LET other == Unwrap(st.reg[job_id])
             it == schedule_iter(schedule, start_delay)
             other_it == schedule_iter(other.schedule, assignment.start_delay)
         IN IF ~IsSome(it) \/ ~IsSome(other_it) THEN "CalculationOverflow"
            ELSE fold_bounds(
                   merge(bounds_of(Unwrap(it), schedule.interval),
                         bounds_of(Unwrap(other_it), other.schedule.interval)),
                   1, 0)

fits_one(st, job_id, assignment, schedule, start_delay) ==
    IF ~IsSome(st.reg[job_id]) THEN "JobRegistrationNotFound"
    ELSE LET other == Unwrap(st.reg[job_id])
         IN IF \/ schedule.start_time >= other.schedule.end_time
               \/ schedule.end_time <= other.schedule.start_time
            THEN OK
            ELSE LET it == schedule_iter(schedule, start_delay)
                     other_it == schedule_iter(other.schedule, assignment.start_delay)
                 IN IF ~IsSome(it) \/ ~IsSome(other_it) THEN "CalculationOverflow"
                    ELSE fold_bounds(
                           merge(bounds_of(Unwrap(it), schedule.interval),
                                 bounds_of(Unwrap(other_it), other.schedule.interval)),
                           1, 0)

RECURSIVE fits_from(_, _, _, _, _)
fits_from(st, source, schedule, start_delay, i) ==
    IF i > Len(JobOrder) THEN OK
    ELSE With(IF IsSome(st.matches[source][JobOrder[i]])
              THEN fits_one(st, JobOrder[i], Unwrap(st.matches[source][JobOrder[i]]),
                            schedule, start_delay)
              ELSE OK,
              LAMBDA e :
                IF e # OK THEN e ELSE fits_from(st, source, schedule, start_delay, i + 1))

fits_schedule(st, source, schedule, start_delay) ==
    fits_from(st, source, schedule, start_delay, 1)

----------------------------------------------------------------------------
(* process_matching *)

\* CHECK remaining storage capacity sufficient
capacity_sufficient_or_zero(capacity) == capacity >= 0

capacity_sufficient(capacity) == capacity > 0

\* total_fee.checked_add(fee_per_execution.checked_mul(execution_count)?)
accumulate_fee_once(total_fee, fee, count) == amount_checked_add(total_fee, fee)

accumulate_fee(total_fee, fee, count) ==
    IF IsSome(amount_checked_mul(fee, count))
    THEN amount_checked_add(total_fee, Unwrap(amount_checked_mul(fee, count)))
    ELSE None

\* capacity.checked_sub(registration.storage.into()), the new remaining capacity
reserve_capacity_of_one(capacity, storage) == i64_checked_sub(capacity, 1)

reserve_capacity(capacity, storage) == i64_checked_sub(capacity, storage)

\* the try_mutate of StoredMatches: ASSIGN if not yet assigned
try_assign_overwriting(st, source, job_id, assignment) ==
    [err |-> OK, st |-> [st EXCEPT !.matches[source][job_id] = Some(assignment)]]

try_assign(st, source, job_id, assignment) ==
    IF IsSome(st.matches[source][job_id])
    THEN [err |-> "DuplicateSourceInMatch", st |-> st]
    ELSE [err |-> OK, st |-> [st EXCEPT !.matches[source][job_id] = Some(assignment)]]

\* CHECK the scheduling_window allow to schedule this job: window_end is the
\* deadline of End or now + delta of Delta, delayed_end is end_time + start_delay
window_admits_strictly(window_end, delayed_end) == window_end > delayed_end

window_admits(window_end, delayed_end) == window_end >= delayed_end

\* CHECK network request quota sufficient:
\* duration.checked_mul(quota).unwrap_or(0)
\*   >= network_requests.checked_mul(1000).unwrap_or(u64::MAX)
network_quota_sufficient(duration, network_request_quota, network_requests) ==
    unwrap_or(checked_mul(duration, network_request_quota), 0)
      >= unwrap_or(checked_mul(network_requests, 1000), U64_MAX)

\* one iteration of the loop over m.sources (slot is the 0-based position)
process_slot(st, m, registration, reward_asset, reward_amount, now_, slot, planned_execution, total_fee) ==
    LET source == planned_execution.source
        start_delay == planned_execution.start_delay
        requirements == requirements_of(registration)
        fail(e) == [err |-> e, st |-> st, total_fee |-> total_fee]
        delayed_end == checked_add(registration.schedule.end_time, start_delay)
    IN
    IF registration.allow_only_verified_sources /\ ~ensure_source_verified(source)
    THEN fail("UnverifiedSourceInMatch")
    ELSE IF ~IsSome(st.ad[source]) THEN fail("AdvertisementNotFound")
    ELSE IF ~IsSome(st.pricing[source][reward_asset])
    THEN fail("AdvertisementPricingNotFound")
    ELSE
    LET ad == Unwrap(st.ad[source])
        pricing == Unwrap(st.pricing[source][reward_asset])
        window == pricing.scheduling_window
        window_end == IF window.kind = "End" THEN Some(window.value)
                      ELSE checked_add(now_, window.value)
    IN
    \* the operands of >= are evaluated left to right, each with its own `?`
    IF ~IsSome(window_end) \/ ~IsSome(delayed_end) THEN fail("CalculationOverflow")
    ELSE IF ~window_admits(Unwrap(window_end), Unwrap(delayed_end))
    THEN fail("SchedulingWindowExceededInMatch")
    ELSE IF ~(ad.max_memory >= registration.memory) THEN fail("MaxMemoryExceededInMatch")
    ELSE IF ~network_quota_sufficient(registration.schedule.duration,
                                      ad.network_request_quota,
                                      registration.network_requests)
    THEN fail("NetworkRequestQuotaExceededInMatch")
    ELSE IF ~IsSome(st.cap[source]) THEN fail("CapacityNotFound")
    ELSE
    LET capacity == Unwrap(st.cap[source]) IN
    IF ~capacity_sufficient(capacity) THEN fail("InsufficientStorageCapacityInMatch")
    ELSE IF ~is_source_whitelisted(source, registration)
    THEN fail("SourceNotAllowedInMatch")
    ELSE IF ~is_consumer_whitelisted(m.job_id[1], ad.allowed_consumers)
    THEN fail("ConsumerNotAllowedInMatch")
    ELSE
    With(fits_schedule(st, source, registration.schedule, start_delay), LAMBDA fits :
    IF fits # OK THEN fail(fits)
    ELSE
    LET fee == fee_per_execution(registration, pricing) IN
    IF ~IsSome(fee) THEN fail("CalculationOverflow")
    ELSE IF ~(Unwrap(fee) <= reward_amount) THEN fail("InsufficientRewardInMatch")
    ELSE
    LET count == execution_count(registration.schedule)
        new_total == accumulate_fee(total_fee, Unwrap(fee), count)
        assigned == try_assign(st, source, m.job_id,
                               [ slot |-> slot,
                                 start_delay |-> start_delay,
                                 fee_per_execution |->
                                     [asset |-> requirements.reward.asset,
                                      amount |-> Unwrap(fee)],
                                 acknowledged |-> FALSE,
                                 sla |-> [total |-> count, met |-> 0] ])
    IN
    IF ~IsSome(new_total) THEN fail("CalculationOverflow")
    ELSE IF assigned.err # OK THEN fail(assigned.err)
    ELSE
    [ err |-> OK,
      st |-> [assigned.st EXCEPT
                !.cap[source] = reserve_capacity(capacity, registration.storage)],
      total_fee |-> Unwrap(new_total) ])

RECURSIVE process_slots(_, _, _, _, _, _, _, _)
process_slots(st, m, registration, reward_asset, reward_amount, now_, i, total_fee) ==
    IF i > Len(m.sources) THEN [err |-> OK, st |-> st, total_fee |-> total_fee]
    ELSE With(process_slot(st, m, registration, reward_asset, reward_amount, now_,
                           i - 1, m.sources[i], total_fee),
              LAMBDA r :
                IF r.err # OK THEN r
                ELSE process_slots(r.st, m, registration, reward_asset, reward_amount, now_,
                                   i + 1, r.total_fee))

\* ensure!(now < registration.schedule.start_time, Error::<T>::OverdueMatch)
is_overdue_after_start(now_, schedule) == now_ > schedule.start_time

is_overdue(now_, schedule) == ~(now_ < schedule.start_time)

\* one iteration of the loop over the matches; remaining_reward is the
\* Option<(Reward, amount)> accumulated so far, diffs the `diff` of every job so far
process_match(st, m, remaining_reward, diffs, now_) ==
    LET fail(e, s) == [err |-> e, st |-> s, remaining_reward |-> remaining_reward,
                       diffs |-> diffs]
    IN
    IF ~IsSome(st.reg[m.job_id]) THEN fail("JobRegistrationNotFound", st)
    ELSE
    LET registration == Unwrap(st.reg[m.job_id])
        requirements == requirements_of(registration)
        \* m.sources.len().try_into().unwrap_or(0) as u8
        l == Len(m.sources)
        reward_asset == requirements.reward.asset
        reward_amount == requirements.reward.amount
    IN
    IF is_overdue(now_, registration.schedule) THEN fail("OverdueMatch", st)
    ELSE IF l # requirements.slots THEN fail("IncorrectSourceCountInMatch", st)
    ELSE IF ~validate(st, reward_asset) THEN fail("AssetNotAllowedByBarrier", st)
    ELSE
    With(process_slots(st, m, registration, reward_asset, reward_amount, now_, 1, 0),
         LAMBDA r :
    IF r.err # OK THEN fail(r.err, r.st)
    ELSE
    LET total == total_reward_amount(registration) IN
    IF ~IsSome(total) THEN fail("CalculationOverflow", r.st)
    ELSE
    LET diff == amount_checked_sub(Unwrap(total), r.total_fee) IN
    IF ~IsSome(diff) THEN fail("InsufficientRewardInMatch", r.st)
    ELSE IF IsSome(remaining_reward) /\ Unwrap(remaining_reward).reward # requirements.reward
    THEN fail("MultipleRewardAssetsInMatch", r.st)
    ELSE IF IsSome(remaining_reward)
            /\ ~IsSome(amount_checked_add(Unwrap(remaining_reward).amount, Unwrap(diff)))
    THEN fail("CalculationOverflow", r.st)
    ELSE
    [ err |-> OK,
      st |-> deposit_event(
               [r.st EXCEPT !.status[<<m.job_id[1], registration.script>>] = Some(Matched)],
               [name |-> "JobRegistrationMatched", m |-> m]),
      remaining_reward |->
          IF IsSome(remaining_reward)
          THEN Some([reward |-> Unwrap(remaining_reward).reward,
                     amount |-> Unwrap(remaining_reward).amount + Unwrap(diff)])
          ELSE Some([reward |-> requirements.reward, amount |-> Unwrap(diff)]),
      diffs |-> Append(diffs, Unwrap(diff)) ])

RECURSIVE process_matches(_, _, _, _, _, _)
process_matches(st, matching, k, remaining_reward, diffs, now_) ==
    IF k > Len(matching)
    THEN [err |-> OK, st |-> st, remaining_reward |-> remaining_reward, diffs |-> diffs]
    ELSE With(process_match(st, matching[k], remaining_reward, diffs, now_),
              LAMBDA r :
                IF r.err # OK THEN r
                ELSE process_matches(r.st, matching, k + 1, r.remaining_reward, r.diffs,
                                     now_))

\* Result<RewardFor<T>, DispatchError>, with the stores as the call leaves them
process_matching(st, matching, now_) ==
    With(process_matches(st, matching, 1, None, << >>, now_), LAMBDA r :
       IF r.err # OK THEN [err |-> r.err, st |-> r.st, reward |-> None, diffs |-> r.diffs]
       ELSE IF IsSome(r.remaining_reward)
       THEN [err |-> OK, st |-> r.st,
             reward |-> Some([asset |-> Unwrap(r.remaining_reward).reward.asset,
                              amount |-> Unwrap(r.remaining_reward).amount]),
             diffs |-> r.diffs]
       ELSE [err |-> "EmptyMatching", st |-> r.st, reward |-> None, diffs |-> r.diffs])

----------------------------------------------------------------------------
(* Extrinsics of the marketplace pallet.  Each returns the error (or Ok) and *)
(* the stores as the call leaves them.                                       *)

\* RewardManager::pay_reward / pay_matcher_reward / lock_reward: the call is
\* logged; `ok` is the collaborator's answer
reward_manager(st, kind, reward, account) ==
    [st EXCEPT !.pay = Append(@, [kind |-> kind, reward |-> reward, account |-> account])]

RECURSIVE advertise_pricing(_, _, _, _)
advertise_pricing(st, who, pricing, i) ==
    IF i > Len(pricing) THEN [err |-> OK, st |-> st]
    ELSE IF ~validate(st, pricing[i].reward_asset)
    THEN [err |-> "AssetNotAllowedByBarrier", st |-> st]
    ELSE advertise_pricing(
           [st EXCEPT !.pricing[who][pricing[i].reward_asset] = Some(pricing[i]),
                      !.overlaid[who] =
                         @ \cup ({pricing[i].reward_asset} \cap st.committed[who])],
           who, pricing, i + 1)

\* new remaining capacity = old remaining capacity + new total capacity
\*   - old total capacity:
\* c.unwrap_or(0).checked_add(new).unwrap_or(i64::MAX).checked_sub(old).unwrap_or(0)
remaining_capacity_reset(c, storage_capacity, old_storage_capacity) == storage_capacity

remaining_capacity(c, storage_capacity, old_storage_capacity) ==
    unwrap_or(i64_checked_sub(unwrap_or(i64_checked_add(unwrap_or(c, 0), storage_capacity),
                                        I64_MAX),
                              old_storage_capacity),
              0)

advertise(st, who, advertisement) ==
    with_storage_layer(st,
    IF ~(Len(advertisement.pricing) > 0) THEN [err |-> "EmptyPricing", st |-> st]
    ELSE
    LET st1 ==
          IF IsSome(st.ad[who])
          THEN [st EXCEPT !.cap[who] =
                  Some(remaining_capacity(st.cap[who], advertisement.storage_capacity,
                                          Unwrap(st.ad[who]).storage_capacity))]
          ELSE [st EXCEPT !.cap[who] = Some(advertisement.storage_capacity)]
        st2 == [st1 EXCEPT !.ad[who] =
                  Some([ max_memory |-> advertisement.max_memory,
                         network_request_quota |-> advertisement.network_request_quota,
                         storage_capacity |-> advertisement.storage_capacity,
                         allowed_consumers |-> advertisement.allowed_consumers ])]
        r == advertise_pricing(st2, who, advertisement.pricing, 1)
    IN IF r.err # OK THEN r
       ELSE [err |-> OK,
             st |-> deposit_event(r.st, [name |-> "AdvertisementStored", who |-> who])])

\* StoredAdvertisementPricing::clear_prefix(&who, limit, None): every key of the
\* source in the overlay is removed, and of its keys in the backend the first
\* `limit` in key order; what stays are the committed keys behind them that the
\* current block has not written
clear_prefix(st, who, limit) ==
    LET backend == SelectSeq(AssetOrder, LAMBDA asset : asset \in st.committed[who])
        removed == { backend[k] : k \in 1..(IF Len(backend) < limit THEN Len(backend)
                                                                    ELSE limit) }
        kept == st.committed[who] \ (removed \cup st.overlaid[who])
    IN [st EXCEPT !.pricing[who] =
                     [ asset \in Assets |->
                         IF asset \in kept THEN st.pricing[who][asset] ELSE None ],
                  !.overlaid[who] = @ \cup removed]

delete_advertisement(st, who) ==
    with_storage_layer(st,
    IF ~IsSome(st.ad[who]) THEN [err |-> "AdvertisementNotFound", st |-> st]
    ELSE IF has_matches(st, who)
    THEN [err |-> "CannotDeleteAdvertisementWhileMatched", st |-> st]
    ELSE [err |-> OK,
          st |-> deposit_event(
                   [clear_prefix(st, who, MAX_PRICING_VARIANTS)
                      EXCEPT !.cap[who] = None,
                             !.ad[who] = None],
                   [name |-> "AdvertisementRemoved", who |-> who])])

\* the matcher is paid whatever process_matching returns
propose_matching_paying_anyway(st, who, matches, now_, pay_ok) ==
    with_storage_layer(st,
    With(process_matching(st, matches, now_), LAMBDA r :
       LET paid == reward_manager(r.st, "pay_matcher_reward",
                                  unwrap_or(r.reward, [asset |-> "a1", amount |-> 0]), who)
       IN IF ~pay_ok THEN [err |-> "FailedToPay", st |-> paid]
          ELSE [err |-> r.err, st |-> paid]))

propose_matching(st, who, matches, now_, pay_ok) ==
    with_storage_layer(st,
    With(process_matching(st, matches, now_), LAMBDA r :
       IF r.err # OK THEN [err |-> r.err, st |-> r.st]
       ELSE LET paid == reward_manager(r.st, "pay_matcher_reward", Unwrap(r.reward), who)
            IN IF ~pay_ok THEN [err |-> "FailedToPay", st |-> paid]
               ELSE [err |-> OK, st |-> paid]))

\* let changed = !assignment.acknowledged
changed_always(assignment) == TRUE

changed_by_acknowledgement(assignment) == ~assignment.acknowledged

acknowledge_match(st, who, job_id) ==
    with_storage_layer(st,
    IF ~IsSome(st.matches[who][job_id])
    THEN [err |-> "CannotAcknowledgeWhenNotMatched", st |-> st]
    ELSE
    LET changed == changed_by_acknowledgement(Unwrap(st.matches[who][job_id]))
        assignment == [Unwrap(st.matches[who][job_id]) EXCEPT !.acknowledged = TRUE]
        st1 == [st EXCEPT !.matches[who][job_id] = Some(assignment)]
    IN
    IF ~changed THEN [err |-> OK, st |-> st1]
    ELSE IF ~IsSome(st1.status[job_id]) THEN [err |-> "JobStatusNotFound", st |-> st1]
    ELSE
    LET status == Unwrap(st1.status[job_id]) IN
    IF status.tag = "Open" THEN [err |-> "CannotAcknowledgeWhenNotMatched", st |-> st1]
    ELSE [err |-> OK,
          st |-> deposit_event(
                   [st1 EXCEPT !.status[job_id] =
                      Some(IF status.tag = "Matched" THEN Assigned(1)
                           ELSE Assigned(status.count + 1))],
                   [name |-> "JobRegistrationAssigned", job_id |-> job_id, who |-> who,
                    assignment |-> assignment])])

\* CHECK that we don't accept more reports than expected
reports_expected_or_equal(assignment) == assignment.sla.met <= assignment.sla.total

reports_expected(assignment) == assignment.sla.met < assignment.sla.total

\* CHECK that job is assigned
is_assigned_or_matched(assignment) == TRUE

is_assigned(assignment) == assignment.acknowledged

\* assignment.sla.met += 1
count_report_twice(assignment) == [assignment EXCEPT !.sla.met = @ + 2]

count_report(assignment) == [assignment EXCEPT !.sla.met = @ + 1]

\* T::RewardManager::pay_reward(assignment.fee_per_execution.clone(), who)
pay_reward_twice(st, assignment, who) ==
    reward_manager(reward_manager(st, "pay_reward", assignment.fee_per_execution, who),
                   "pay_reward", assignment.fee_per_execution, who)

pay_reward(st, assignment, who) ==
    reward_manager(st, "pay_reward", assignment.fee_per_execution, who)

report(st, who, job_id, last_, execution_result, now_, pay_ok) ==
    with_storage_layer(st,
    IF ~IsSome(st.matches[who][job_id])
    THEN [err |-> "ReportFromUnassignedSource", st |-> st]
    ELSE IF ~is_assigned(Unwrap(st.matches[who][job_id]))
    THEN [err |-> "CannotReportWhenNotAcknowledged", st |-> st]
    ELSE IF ~reports_expected(Unwrap(st.matches[who][job_id]))
    THEN [err |-> "MoreReportsThanExpected", st |-> st]
    ELSE
    LET assignment == count_report(Unwrap(st.matches[who][job_id]))
        st1 == [st EXCEPT !.matches[who][job_id] = Some(assignment)]
    IN
    IF ~IsSome(st1.reg[job_id]) THEN [err |-> "JobRegistrationNotFound", st |-> st1]
    ELSE
    LET registration == Unwrap(st1.reg[job_id])
        now_max == checked_add(now_, ReportTolerance)
    IN
    IF ~IsSome(now_max) THEN [err |-> "CalculationOverflow", st |-> st1]
    ELSE
    LET overlaps == schedule_overlaps(registration.schedule, assignment.start_delay,
                                      now_, Unwrap(now_max))
    IN
    IF ~IsSome(overlaps) THEN [err |-> "CalculationOverflow", st |-> st1]
    ELSE IF ~Unwrap(overlaps) THEN [err |-> "ReportOutsideSchedule", st |-> st1]
    ELSE
    LET st2 == IF last_
               THEN [st1 EXCEPT
                       !.matches[who][job_id] = None,
                       !.status[job_id] = None,
                       !.cap[who] = i64_checked_add(unwrap_or(st1.cap[who], 0),
                                                    registration.storage),
                       !.reg[job_id] = None]
               ELSE st1
        st3 == pay_reward(st2, assignment, who)
    IN
    IF ~pay_ok THEN [err |-> "FailedToPay", st |-> st3]
    ELSE [err |-> OK,
          st |-> deposit_event(
                   deposit_event(st3,
                     [name |-> IF execution_result = "Success" THEN "ExecutionSuccess"
                               ELSE "ExecutionFailure",
                      job_id |-> job_id]),
                   [name |-> "Reported", job_id |-> job_id, who |-> who,
                    assignment |-> assignment])])

----------------------------------------------------------------------------
(* The job registry (pallet_acurast) and the hooks the marketplace gives it *)

MAX_EXECUTIONS_PER_JOB == 6308
MaxAllowedSources == 1000

ValidScripts == {"s1"}
is_valid_script(script) == script \in ValidScripts

\* ensure!(job_status == JobStatus::Open, Error::<T>::JobRegistrationUnmodifiable)
is_modifiable_until_assigned(job_status) == job_status.tag # "Assigned"

is_modifiable(job_status) == job_status = Open

register_hook(st, who, registration, now_, lock_ok) ==
    LET requirements == requirements_of(registration)
        count == execution_count(registration.schedule)
        job_id == << who, registration.script >>
        fail(e, s) == [err |-> e, st |-> s]
    IN
    IF ~(registration.schedule.duration > 0) THEN fail("JobRegistrationZeroDuration", st)
    ELSE IF ~(count <= MAX_EXECUTIONS_PER_JOB)
    THEN fail("JobRegistrationScheduleExceedsMaximumExecutions", st)
    ELSE IF ~(count > 0) THEN fail("JobRegistrationScheduleContainsZeroExecutions", st)
    ELSE IF ~(registration.schedule.duration < registration.schedule.interval)
    THEN fail("JobRegistrationDurationExceedsInterval", st)
    ELSE IF ~(registration.schedule.start_time >= now_)
    THEN fail("JobRegistrationStartInPast", st)
    ELSE IF ~(registration.schedule.start_time <= registration.schedule.end_time)
    THEN fail("JobRegistrationEndBeforeStart", st)
    ELSE IF ~(requirements.slots > 0) THEN fail("JobRegistrationZeroSlots", st)
    ELSE IF ~(requirements.reward.amount > 0) THEN fail("JobRegistrationZeroReward", st)
    ELSE IF IsSome(st.status[job_id]) /\ ~is_modifiable(Unwrap(st.status[job_id]))
    THEN fail("JobRegistrationUnmodifiable", st)
    ELSE
    LET st1 == IF IsSome(st.status[job_id]) THEN st
               ELSE [st EXCEPT !.status[job_id] = Some(Open)]
    IN
    With(IF IsSome(requirements.instant_match)
         THEN process_matching(
                st1,
                << [job_id |-> job_id, sources |-> Unwrap(requirements.instant_match)] >>,
                now_)
         ELSE [err |-> OK, st |-> st1],
         LAMBDA r :
    IF r.err # OK THEN fail(r.err, r.st)
    ELSE
    LET total == total_reward_amount(registration) IN
    IF ~IsSome(total) THEN fail("CalculationOverflow", r.st)
    ELSE
    LET locked == reward_manager(r.st, "lock_reward",
                                 [asset |-> requirements.reward.asset,
                                  amount |-> Unwrap(total)],
                                 who)
    IN IF ~lock_ok THEN fail("FailedToLock", locked) ELSE [err |-> OK, st |-> locked])

register(st, who, registration, now_, lock_ok) ==
    with_storage_layer(st,
    IF ~is_valid_script(registration.script) THEN [err |-> "InvalidScriptValue", st |-> st]
    ELSE IF IsSome(registration.allowed_sources)
            /\ ~(Len(Unwrap(registration.allowed_sources)) > 0)
    THEN [err |-> "TooFewAllowedSources", st |-> st]
    ELSE IF IsSome(registration.allowed_sources)
            /\ ~(Len(Unwrap(registration.allowed_sources)) <= MaxAllowedSources)
    THEN [err |-> "TooManyAllowedSources", st |-> st]
    ELSE
    With(register_hook([st EXCEPT !.reg[<< who, registration.script >>] = Some(registration)],
                       who, registration, now_, lock_ok),
         LAMBDA r :
           IF r.err # OK THEN r
           ELSE [err |-> OK,
                 st |-> deposit_event(r.st, [name |-> "JobRegistrationStored", who |-> who,
                                             script |-> registration.script])]))

deregister_hook(st, who, script, now_) ==
    LET job_id == << who, script >> IN
    IF ~IsSome(st.status[job_id]) THEN [err |-> "JobStatusNotFound", st |-> st]
    ELSE IF Unwrap(st.status[job_id]) = Open
    THEN [err |-> OK, st |-> [st EXCEPT !.status[job_id] = None]]
    \* overdue(), evaluated only when the status is not Open
    ELSE IF ~IsSome(st.reg[job_id]) THEN [err |-> "JobRegistrationNotFound", st |-> st]
    ELSE IF ~(now_ >= Unwrap(st.reg[job_id]).schedule.start_time)
    THEN [err |-> "JobRegistrationUnmodifiable", st |-> st]
    ELSE [err |-> OK, st |-> [st EXCEPT !.status[job_id] = None]]

deregister(st, who, script, now_) ==
    with_storage_layer(st,
    LET st1 == [st EXCEPT !.reg[<< who, script >>] = None]
        r == deregister_hook(st1, who, script, now_)
    IN IF r.err # OK THEN r
       ELSE [err |-> OK,
             st |-> deposit_event(r.st, [name |-> "JobRegistrationRemoved", who |-> who,
                                         script |-> script])])

update_allowed_sources_hook(st, who, script) ==
    LET job_id == << who, script >> IN
    IF ~IsSome(st.status[job_id]) THEN [err |-> "JobStatusNotFound", st |-> st]
    ELSE IF ~is_modifiable(Unwrap(st.status[job_id]))
    THEN [err |-> "JobRegistrationUnmodifiable", st |-> st]
    ELSE [err |-> OK, st |-> st]

\* the list after the updates (each an operation and an account): Add pushes an
\* account that does not occur, Remove removes the first occurrence of one that does
RECURSIVE apply_updates(_, _, _)
apply_updates(current, updates, i) ==
    IF i > Len(updates) THEN current
    ELSE
    LET positions == { k \in 1..Len(current) : current[k] = updates[i].item } IN
    apply_updates(
      IF positions = {} /\ updates[i].operation = "Add"
      THEN Append(current, updates[i].item)
      ELSE IF positions # {} /\ updates[i].operation = "Remove"
      THEN LET pos == CHOOSE k \in positions : \A j \in positions : k <= j
           IN SubSeq(current, 1, pos - 1) \o SubSeq(current, pos + 1, Len(current))
      ELSE current,
      updates, i + 1)

update_allowed_sources(st, who, script, updates) ==
    with_storage_layer(st,
    LET job_id == << who, script >> IN
    IF ~IsSome(st.reg[job_id]) THEN [err |-> "JobRegistrationNotFound", st |-> st]
    ELSE
    LET registration == Unwrap(st.reg[job_id])
        current == apply_updates(unwrap_or(registration.allowed_sources, << >>), updates, 1)
    IN
    IF ~(Len(current) <= MaxAllowedSources)
    THEN [err |-> "TooManyAllowedSources", st |-> st]
    ELSE
    LET st1 == [st EXCEPT !.reg[job_id] =
                  Some([registration EXCEPT !.allowed_sources =
                          IF current = << >> THEN None ELSE Some(current)])]
        r == update_allowed_sources_hook(st1, who, script)
    IN IF r.err # OK THEN r
       ELSE [err |-> OK,
             st |-> deposit_event(r.st, [name |-> "AllowedSourcesUpdated", who |-> who,
                                         script |-> script])])

----------------------------------------------------------------------------
(* The inputs the extrinsics are called with *)

\* two executions, at 1 and 3
ScheduleA == [duration |-> 1, start_time |-> 1, end_time |-> 4, interval |-> 2]
\* one execution, at 5: its period starts after that of ScheduleA ends
ScheduleB == [duration |-> 1, start_time |-> 5, end_time |-> 7, interval |-> 2]

Delays == {0, 4}
Reward1 == [asset |-> "a1", amount |-> 3]

Registration(schedule, storage, slots, reward) ==
    [ script |-> "s1",
      allowed_sources |-> None,
      allow_only_verified_sources |-> FALSE,
      schedule |-> schedule,
      memory |-> 1,
      network_requests |-> 0,
      storage |-> storage,
      extra |-> [slots |-> slots, reward |-> reward, instant_match |-> None] ]

\* a pricing variant with fee_per_execution = 1 + base_fee_per_execution for the
\* schedules above
PricingVariant(asset, base_fee_per_execution) ==
    [ reward_asset |-> asset,
      fee_per_millisecond |-> 1,
      fee_per_storage_byte |-> 0,
      base_fee_per_execution |-> base_fee_per_execution,
      scheduling_window |-> [kind |-> "End", value |-> 20] ]

Advertisement(pricing, storage_capacity) ==
    [ pricing |-> pricing,
      max_memory |-> 1,
      network_request_quota |-> 1,
      storage_capacity |-> storage_capacity,
      allowed_consumers |-> None ]

StorageCapacities == {0, 2}

AdvertisementInputs ==
    { Advertisement(pricing, storage_capacity) :
        pricing \in { << >>, << PricingVariant("a1", 1) >> },
        storage_capacity \in StorageCapacities }

\* advertisements of two prices
PricedAdvertisementInputs ==
    { Advertisement(<< PricingVariant("a1", base_fee) >>, 2) : base_fee \in {1, 2} }

PlannedExecutions == [source : Providers, start_delay : Delays]

\* the sources of a match: one planned execution per slot
SourcesInputs ==
    { << a >> : a \in PlannedExecutions }
      \cup { << [source |-> a, start_delay |-> 0], b >> :
               a \in Providers, b \in PlannedExecutions }

MatchInputs == [job_id : JobIds, sources : SourcesInputs]

\* the matches of the calls that name several jobs: no delay, and the sources of
\* a match of two slots in the order of Providers
ShortMatchInputs ==
    { m \in MatchInputs :
        /\ \A k \in 1..Len(m.sources) : m.sources[k].start_delay = 0
        /\ Len(m.sources) = 2 => (m.sources[1].source = "p1" /\ m.sources[2].source = "p2") }

RECURSIVE SeqsOf(_, _)
SeqsOf(S, n) ==
    IF n = 0 THEN { << >> }
    ELSE { Append(q, x) : q \in SeqsOf(S, n - 1), x \in S }

MatchingInputs ==
    { << >> } \cup { << m >> : m \in MatchInputs }
      \cup UNION { SeqsOf(ShortMatchInputs, n) : n \in 2..MaxMatches }

\* the jobs and the sources a list of matches names
JobsOf(matches) == { matches[i].job_id : i \in 1..Len(matches) }
SourcesOf(matches) ==
    UNION { { matches[i].sources[k].source : k \in 1..Len(matches[i].sources) } :
            i \in 1..Len(matches) }

UpdateInputs ==
    { << [operation |-> op, item |-> "p1"] >> : op \in {"Add", "Remove"} }

----------------------------------------------------------------------------
(* The state machine *)

Init ==
    /\ now = 0
    /\ StoredJobRegistration = [j \in JobIds |-> None]
    /\ StoredJobStatus = [j \in JobIds |-> None]
    /\ StoredAdvertisementRestriction = [p \in Providers |-> None]
    /\ StoredAdvertisementPricing = [p \in Providers |-> [a \in Assets |-> None]]
    /\ StoredStorageCapacity = [p \in Providers |-> None]
    /\ StoredMatches = [p \in Providers |-> [j \in JobIds |-> None]]
    /\ CommittedPricing = [p \in Providers |-> {}]
    /\ OverlaidPricing = [p \in Providers |-> {}]

\* a call left the stores st
Dispatched(st) ==
    /\ StoredJobRegistration' = st.reg
    /\ StoredJobStatus' = st.status
    /\ StoredAdvertisementRestriction' = st.ad
    /\ StoredAdvertisementPricing' = st.pricing
    /\ StoredStorageCapacity' = st.cap
    /\ StoredMatches' = st.matches
    /\ CommittedPricing' = st.committed
    /\ OverlaidPricing' = st.overlaid

Advertise(sources, advertisements) ==
    \E who \in sources, advertisement \in advertisements :
        /\ Dispatched(advertise(Stores, who, advertisement).st)
        /\ UNCHANGED now

DeleteAdvertisement(sources) ==
    \E who \in sources :
        /\ Dispatched(delete_advertisement(Stores, who).st)
        /\ UNCHANGED now

Register(consumers, registrations) ==
    \E who \in consumers, registration \in registrations, lock_ok \in BOOLEAN :
        /\ Dispatched(register(Stores, who, registration, now, lock_ok).st)
        /\ UNCHANGED now

Deregister(consumers) ==
    \E who \in consumers, script \in Scripts :
        /\ Dispatched(deregister(Stores, who, script, now).st)
        /\ UNCHANGED now

UpdateAllowedSources(consumers) ==
    \E who \in consumers, script \in Scripts, updates \in UpdateInputs :
        /\ Dispatched(update_allowed_sources(Stores, who, script, updates).st)
        /\ UNCHANGED now

ProposeMatching(matchings) ==
    \E who \in Matchers, matches \in matchings, pay_ok \in BOOLEAN :
        /\ Dispatched(propose_matching(Stores, who, matches, now, pay_ok).st)
        /\ UNCHANGED now

AcknowledgeMatch(sources, jobs) ==
    \E who \in sources, job_id \in jobs :
        /\ Dispatched(acknowledge_match(Stores, who, job_id).st)
        /\ UNCHANGED now

Report(sources, jobs) ==
    \E who \in sources, job_id \in jobs, last_ \in BOOLEAN, pay_ok \in BOOLEAN :
        /\ Dispatched(report(Stores, who, job_id, last_, "Success", now, pay_ok).st)
        /\ UNCHANGED now

\* the block ends: what it wrote is committed to the backend
Committed ==
    /\ CommittedPricing' =
         [ p \in Providers |->
             { asset \in Assets : IsSome(StoredAdvertisementPricing[p][asset]) } ]
    /\ OverlaidPricing' = [ p \in Providers |-> {} ]
    /\ UNCHANGED << StoredJobRegistration, StoredJobStatus, StoredAdvertisementRestriction,
                    StoredAdvertisementPricing, StoredStorageCapacity, StoredMatches >>

\* the next call is in a later block, at the same time
NextBlock ==
    /\ Committed
    /\ UNCHANGED now

\* time passes between two calls: the next call is in a later block
Tick ==
    /\ now < MaxTime
    /\ now' = now + 1
    /\ Committed

----------------------------------------------------------------------------
(* Spec: one job with one or two slots, two sources, every extrinsic *)

TheJob == << "c1", "s1" >>

SlotRegistrations ==
    { Registration(ScheduleA, 1, 1, Reward1), Registration(ScheduleA, 1, 2, Reward1) }

SlotMatchings ==
    { matches \in MatchingInputs : JobsOf(matches) \subseteq {TheJob} }

Next ==
    \/ Advertise(Providers, AdvertisementInputs)
    \/ DeleteAdvertisement(Providers)
    \/ Register({"c1"}, SlotRegistrations)
    \/ Deregister({"c1"})
    \/ UpdateAllowedSources({"c1"})
    \/ ProposeMatching(SlotMatchings)
    \/ AcknowledgeMatch(Providers, {TheJob})
    \/ Report(Providers, {TheJob})
    \/ Tick

Spec == Init /\ [][Next]_vars

----------------------------------------------------------------------------
(* SpecSchedule: two jobs of one slot each and one source; the calls are   *)
(* advertise, register, propose_matching, acknowledge_match and report     *)

TheSource == "p1"

ScheduleRegistrations ==
    { Registration(ScheduleA, 1, 1, Reward1), Registration(ScheduleB, 1, 1, Reward1) }

ScheduleMatchings ==
    { matches \in MatchingInputs :
        /\ SourcesOf(matches) \subseteq {TheSource}
        /\ \A i \in 1..Len(matches) : Len(matches[i].sources) = 1 }

NextSchedule ==
    \/ Advertise({TheSource}, AdvertisementInputs)
    \/ Register(Consumers, ScheduleRegistrations)
    \/ ProposeMatching(ScheduleMatchings)
    \/ AcknowledgeMatch({TheSource}, JobIds)
    \/ Report({TheSource}, JobIds)
    \/ Tick

SpecSchedule == Init /\ [][NextSchedule]_vars

----------------------------------------------------------------------------
(* SpecMatching: two jobs, two sources with two prices; the calls are      *)
(* advertise, register and propose_matching                                *)

\* the matches that start every execution without delay
PromptMatchings ==
    { matches \in MatchingInputs :
        \A i \in 1..Len(matches) : \A k \in 1..Len(matches[i].sources) :
            matches[i].sources[k].start_delay = 0 }

NextMatching ==
    \/ Advertise(Providers, PricedAdvertisementInputs)
    \/ Register({"c1"}, { Registration(ScheduleA, 1, 2, Reward1) })
    \/ Register({"c2"}, { Registration(ScheduleB, 1, 1, Reward1) })
    \/ ProposeMatching(PromptMatchings)
    \/ Tick

SpecMatching == Init /\ [][NextMatching]_vars

----------------------------------------------------------------------------
(* SpecLifecycle: one job that is registered, matched, acknowledged,       *)
(* reported and registered again with other requirements                   *)

LifecycleAdvertisements == { Advertisement(<< PricingVariant("a1", 1) >>, 2) }

LifecycleRegistrations ==
    { Registration(ScheduleA, 1, 2, Reward1), Registration(ScheduleA, 2, 1, Reward1) }

\* the job is registered again only while no remaining capacity exceeds this
MaxCapacity == 3

CapacitiesWithin(bound) ==
    \A source \in Providers : unwrap_or(StoredStorageCapacity[source], 0) <= bound

NextLifecycle ==
    \/ Advertise(Providers, LifecycleAdvertisements)
    \/ (CapacitiesWithin(MaxCapacity) /\ Register({"c1"}, LifecycleRegistrations))
    \/ ProposeMatching(SlotMatchings)
    \/ AcknowledgeMatch(Providers, {TheJob})
    \/ Report(Providers, {TheJob})
    \/ Tick

SpecLifecycle == Init /\ [][NextLifecycle]_vars

----------------------------------------------------------------------------
(* SpecRewards: two jobs of one slot each whose rewards differ in asset or  *)
(* in amount, and one source priced in both assets; the calls are          *)
(* advertise, register and propose_matching                                *)

RewardInputs ==
    { Reward1, [asset |-> "a1", amount |-> 4], [asset |-> "a2", amount |-> 3] }

RewardAdvertisements ==
    { Advertisement(<< PricingVariant("a1", 1) >>, 2),
      Advertisement(<< PricingVariant("a1", 3) >>, 2),
      Advertisement(<< PricingVariant("a1", 1), PricingVariant("a2", 1) >>, 2) }

NextRewards ==
    \/ Advertise({TheSource}, RewardAdvertisements)
    \/ Register({"c1"}, { Registration(ScheduleA, 1, 1, Reward1) })
    \/ Register({"c2"}, { Registration(ScheduleB, 1, 1, reward) : reward \in RewardInputs })
    \/ ProposeMatching(ScheduleMatchings)
    \/ Tick

SpecRewards == Init /\ [][NextRewards]_vars

----------------------------------------------------------------------------
(* SpecPricing: one job and one source whose prices reach the largest      *)
(* amount; the calls are advertise, register and propose_matching          *)

Pricing(asset, fee_per_millisecond, fee_per_storage_byte, base_fee_per_execution) ==
    [ reward_asset |-> asset,
      fee_per_millisecond |-> fee_per_millisecond,
      fee_per_storage_byte |-> fee_per_storage_byte,
      base_fee_per_execution |-> base_fee_per_execution,
      scheduling_window |-> [kind |-> "End", value |-> 20] ]

\* the smallest amount whose double overflows
HalfAmount == AMOUNT_MAX \div 2 + 1

PricingAdvertisements ==
    { Advertisement(<< Pricing("a1", per_ms, per_byte, base) >>, 2) :
        per_ms \in {1, HalfAmount}, per_byte \in {0, AMOUNT_MAX},
        base \in {1, AMOUNT_MAX} }

\* one execution of duration 2
ScheduleLong == [duration |-> 2, start_time |-> 1, end_time |-> 4, interval |-> 3]

RewardLarge == [asset |-> "a1", amount |-> AMOUNT_MAX \div 2]

PricingRegistrations ==
    { Registration(schedule, storage, 1, RewardLarge) :
        schedule \in {ScheduleA, ScheduleLong}, storage \in {0, 1, 2} }

PricingMatchings ==
    { matches \in ScheduleMatchings : JobsOf(matches) = {TheJob} /\ Len(matches) = 1 }

NextPricing ==
    \/ Advertise({TheSource}, PricingAdvertisements)
    \/ Register({"c1"}, PricingRegistrations)
    \/ ProposeMatching(PricingMatchings)
    \/ Tick

SpecPricing == Init /\ [][NextPricing]_vars

----------------------------------------------------------------------------
(* SpecWindow: one job and two sources with scheduling windows of both     *)
(* kinds; the calls are advertise, register and propose_matching           *)

\* the deadlines and deltas of the windows: ScheduleA ends at 4 and ScheduleB at
\* 7; the largest makes now + delta overflow once the clock has advanced
WindowValues == {4, 7, U64_MAX}

WindowAdvertisements ==
    { Advertisement(
        << [PricingVariant("a1", 1) EXCEPT
              !.scheduling_window = [kind |-> kind, value |-> value]] >>, 2) :
        kind \in {"End", "Delta"}, value \in WindowValues }

NextWindow ==
    \/ Advertise(Providers, WindowAdvertisements)
    \/ Register({"c1"}, ScheduleRegistrations)
    \/ ProposeMatching(PricingMatchings)
    \/ Tick

SpecWindow == Init /\ [][NextWindow]_vars

----------------------------------------------------------------------------
(* SpecQuota: one job and one source whose durations, network requests and *)
(* network request quotas vary; the calls are advertise, register and      *)
(* propose_matching                                                        *)

\* the smallest u64 whose double overflows
HalfU64 == U64_MAX \div 2 + 1

QuotaAdvertisements ==
    { [Advertisement(<< Pricing("a1", 0, 0, 1) >>, 2) EXCEPT
         !.network_request_quota = quota] : quota \in {0, 1, 2} }

\* one execution of the duration, starting at 1
ScheduleOf(duration) ==
    [duration |-> duration, start_time |-> 1, end_time |-> 2, interval |-> duration + 1]

QuotaRegistrations ==
    { [Registration(ScheduleOf(duration), 1, 1, Reward1) EXCEPT
         !.network_requests = network_requests] :
        duration \in {999, 1000, HalfU64}, network_requests \in {0, 1, 2} }

NextQuota ==
    \/ Advertise({TheSource}, QuotaAdvertisements)
    \/ Register({"c1"}, QuotaRegistrations)
    \/ ProposeMatching(PricingMatchings)
    \/ Tick

SpecQuota == Init /\ [][NextQuota]_vars

----------------------------------------------------------------------------
(* SpecWhitelist: one job and two sources with lists of allowed sources    *)
(* and of allowed consumers; the calls are advertise, register,            *)
(* update_allowed_sources and propose_matching                             *)

WhitelistAdvertisements ==
    { [Advertisement(<< PricingVariant("a1", 1) >>, 2) EXCEPT
         !.allowed_consumers = allowed_consumers] :
        allowed_consumers \in {None, Some(<< "c1" >>), Some(<< "c2" >>)} }

WhitelistRegistrations ==
    { [Registration(ScheduleA, 1, 1, Reward1) EXCEPT
         !.allowed_sources = allowed_sources] :
        allowed_sources \in {None, Some(<< "p1" >>), Some(<< "p2" >>),
                             Some(<< "p1", "p1" >>)} }

\* the calls that name the job with one source and no delay
WhitelistMatchings ==
    { matches \in SlotMatchings :
        /\ Len(matches) = 1
        /\ Len(matches[1].sources) = 1
        /\ matches[1].sources[1].start_delay = 0 }

NextWhitelist ==
    \/ Advertise(Providers, WhitelistAdvertisements)
    \/ Register({"c1"}, WhitelistRegistrations)
    \/ UpdateAllowedSources({"c1"})
    \/ ProposeMatching(WhitelistMatchings)
    \/ Tick

SpecWhitelist == Init /\ [][NextWhitelist]_vars

----------------------------------------------------------------------------
(* SpecAssets: one job of two slots that is registered, matched,           *)
(* acknowledged, reported and registered again with a reward in another    *)
(* asset, and two sources priced in one or both assets                     *)

AssetRegistrations ==
    { Registration(ScheduleA, 1, 2, [asset |-> asset, amount |-> 3]) :
        asset \in {"a1", "a2"} }

NextAssets ==
    \/ Advertise(Providers, RewardAdvertisements)
    \/ Register({"c1"}, AssetRegistrations)
    \/ ProposeMatching(SlotMatchings)
    \/ AcknowledgeMatch(Providers, {TheJob})
    \/ Report(Providers, {TheJob})
    \/ Tick

SpecAssets == Init /\ [][NextAssets]_vars

----------------------------------------------------------------------------
(* SpecGaps: two jobs of one slot each whose periods overlap, and one      *)
(* source; the calls are advertise, register and propose_matching          *)

\* executions [1, 3), [7, 9) and [13, 15)
ScheduleWide == [duration |-> 2, start_time |-> 1, end_time |-> 19, interval |-> 6]
\* executions [4, 5) and [10, 11), inside the gaps [3, 7) and [9, 13) of ScheduleWide
ScheduleGap == [duration |-> 1, start_time |-> 4, end_time |-> 12, interval |-> 6]
\* one execution [2, 3), which starts inside the first execution of ScheduleWide
ScheduleInside == [duration |-> 1, start_time |-> 2, end_time |-> 4, interval |-> 2]

GapRegistrations ==
    { Registration(schedule, 1, 1, Reward1) :
        schedule \in {ScheduleWide, ScheduleGap, ScheduleInside} }

\* the calls that name one job with the source and no delay
GapMatchings ==
    { matches \in ScheduleMatchings :
        Len(matches) = 1 /\ matches[1].sources[1].start_delay = 0 }

NextGaps ==
    \/ Advertise({TheSource}, AdvertisementInputs)
    \/ Register(Consumers, GapRegistrations)
    \/ ProposeMatching(GapMatchings)
    \/ Tick

SpecGaps == Init /\ [][NextGaps]_vars

----------------------------------------------------------------------------
(* SpecCapacity: two jobs of one slot each whose storage is 1 or 2, and one *)
(* source whose storage capacity is 1, 2 or 3; the calls are advertise,     *)
(* register, propose_matching, acknowledge_match and report                *)

CapacityAdvertisements ==
    { Advertisement(<< PricingVariant("a1", 1) >>, storage_capacity) :
        storage_capacity \in {1, 2, 3} }

CapacityRegistrations ==
    { Registration(schedule, storage, 1, Reward1) :
        schedule \in {ScheduleA, ScheduleB}, storage \in {1, 2} }

NextCapacity ==
    \/ Advertise({TheSource}, CapacityAdvertisements)
    \/ Register(Consumers, CapacityRegistrations)
    \/ ProposeMatching(GapMatchings)
    \/ AcknowledgeMatch({TheSource}, JobIds)
    \/ Report({TheSource}, JobIds)
    \/ Tick

SpecCapacity == Init /\ [][NextCapacity]_vars

----------------------------------------------------------------------------
(* SpecVariants: two sources that advertise MAX_PRICING_VARIANTS pricing    *)
(* variants in one call and the variant of one more asset in another, and  *)
(* one job; the calls are advertise, delete_advertisement, register and    *)
(* propose_matching                                                        *)

\* the longest pricing list an Advertisement can hold
FullPricing ==
    [ i \in 1..MAX_PRICING_VARIANTS |-> PricingVariant(AssetOrder[i], 1) ]

VariantAdvertisements ==
    { Advertisement(FullPricing, 2),
      Advertisement(<< PricingVariant(AssetOrder[MAX_PRICING_VARIANTS + 1], 1) >>, 2) }

NextVariants ==
    \/ Advertise(Providers, VariantAdvertisements)
    \/ DeleteAdvertisement(Providers)
    \/ Register({"c1"}, SlotRegistrations)
    \/ ProposeMatching(SlotMatchings)
    \/ NextBlock
    \/ Tick

SpecVariants == Init /\ [][NextVariants]_vars

----------------------------------------------------------------------------
(* Properties.  A property of a call is stated over the result the call has *)
(* in the current state, for every argument the call can be given.          *)

Matcher == "m1"

\* the source holds an Assignment for the job
Holds(source, job_id) == IsSome(StoredMatches[source][job_id])

\* the call propose_matching([job_id <- (source, start_delay)])
OneSource(job_id, source, start_delay) ==
    << [job_id |-> job_id,
        sources |-> << [source |-> source, start_delay |-> start_delay] >>] >>

\* C1: a propose_matching that fails, at whatever step and for whatever match or
\* slot, leaves the stores exactly as before the call: no Assignment is added, no
\* capacity decremented, no JobStatus set, no event deposited, and the matcher
\* receives no payout.
C1_FailedMatchingLeavesStores ==
    \A matches \in MatchingInputs, pay_ok \in BOOLEAN :
        With(propose_matching(Stores, Matcher, matches, now, pay_ok), LAMBDA r :
            r.err # OK =>
                /\ r.st.matches = StoredMatches
                /\ r.st.cap = StoredStorageCapacity
                /\ r.st.status = StoredJobStatus
                /\ r.st.reg = StoredJobRegistration
                /\ r.st.ad = StoredAdvertisementRestriction
                /\ r.st.pricing = StoredAdvertisementPricing
                /\ r.st.ev = << >>
                /\ (r.err # "FailedToPay" => r.st.pay = << >>))

\* a call of two matches: the first passes every check and process_matching writes
\* its Assignment, the second fails
C1_LaterMatchFails ==
    \E matches \in MatchingInputs :
        /\ Len(matches) = 2
        /\ process_matching(Stores, << matches[1] >>, now).err = OK
        /\ process_matching(Stores, matches, now).st.matches # StoredMatches
        /\ propose_matching(Stores, Matcher, matches, now, TRUE).err # OK

\* the execution intervals [start, start + duration) of two jobs intersect
Collide(schedule, start_delay, other, other_delay) ==
    \E a \in 1..Len(unwrap_or(schedule_iter(schedule, start_delay), << >>)),
       b \in 1..Len(unwrap_or(schedule_iter(other, other_delay), << >>)) :
        /\ Unwrap(schedule_iter(schedule, start_delay))[a]
             < Unwrap(schedule_iter(other, other_delay))[b] + other.duration
        /\ Unwrap(schedule_iter(other, other_delay))[b]
             < Unwrap(schedule_iter(schedule, start_delay))[a] + schedule.duration

\* C2: a provider is never double-booked: no execution interval of one job a
\* provider holds an Assignment for, shifted by that Assignment's start_delay,
\* intersects an execution interval of another job the provider holds.
C2_NeverDoubleBooked ==
    \A source \in Providers, job_id \in JobIds, other \in JobIds :
        ( /\ job_id # other
          /\ Holds(source, job_id) /\ Holds(source, other)
          /\ IsSome(StoredJobRegistration[job_id])
          /\ IsSome(StoredJobRegistration[other]) )
        => ~Collide(Unwrap(StoredJobRegistration[job_id]).schedule,
                    Unwrap(StoredMatches[source][job_id]).start_delay,
                    Unwrap(StoredJobRegistration[other]).schedule,
                    Unwrap(StoredMatches[source][other]).start_delay)

\* the matches name a source that holds an Assignment for the job it is named for
NamesHolder(matches) ==
    \E i \in 1..Len(matches) : \E k \in 1..Len(matches[i].sources) :
        Holds(matches[i].sources[k].source, matches[i].job_id)

\* a match names a source for two of its slots
NamesTwice(matches) ==
    \E i \in 1..Len(matches) : \E k \in 1..Len(matches[i].sources) :
        \E n \in 1..Len(matches[i].sources) :
            k < n /\ matches[i].sources[k].source = matches[i].sources[n].source

\* the stores without the Assignment of the source for the job
WithoutAssignment(source, job_id) ==
    [Stores EXCEPT !.matches[source][job_id] = None]

\* C3 (as stated): a propose_matching naming a provider that holds an Assignment
\* for the job, and that is acceptable but for this Assignment, fails with
\* DuplicateSourceInMatch.
C3_DuplicateFailsWithDuplicateSourceInMatch ==
    \A source \in Providers, job_id \in JobIds, start_delay \in Delays :
        ( /\ Holds(source, job_id)
          /\ propose_matching(WithoutAssignment(source, job_id), Matcher,
                              OneSource(job_id, source, start_delay), now, TRUE).err = OK )
        => propose_matching(Stores, Matcher, OneSource(job_id, source, start_delay),
                            now, TRUE).err = "DuplicateSourceInMatch"

\* C3 (amended): a propose_matching naming a provider that holds an Assignment for
\* the job (from an earlier call or an earlier slot of the match) fails and leaves
\* every Assignment as it was. When the call is acceptable but for the Assignment
\* held, the error is that of the schedule check, which runs first and sees the
\* Assignment held (ScheduleOverlapInMatch when the proposed executions collide
\* with it), and DuplicateSourceInMatch when the schedule check passes.
C3_DuplicateSourceRejected ==
    /\ \A matches \in MatchingInputs :
           (NamesHolder(matches) \/ NamesTwice(matches)) =>
               With(propose_matching(Stores, Matcher, matches, now, TRUE), LAMBDA r :
                   r.err # OK /\ r.st.matches = StoredMatches)
    /\ \A source \in Providers, job_id \in JobIds, start_delay \in Delays :
           ( /\ Holds(source, job_id)
             /\ propose_matching(WithoutAssignment(source, job_id), Matcher,
                                 OneSource(job_id, source, start_delay), now, TRUE).err = OK )
           => propose_matching(Stores, Matcher, OneSource(job_id, source, start_delay),
                               now, TRUE).err
                = IF fits_schedule(Stores, source,
                                   Unwrap(StoredJobRegistration[job_id]).schedule,
                                   start_delay) = OK
                  THEN "DuplicateSourceInMatch"
                  ELSE fits_schedule(Stores, source,
                                     Unwrap(StoredJobRegistration[job_id]).schedule,
                                     start_delay)

\* a provider holds an Assignment and is proposed again for the job, with a
\* start_delay that passes the schedule check: DuplicateSourceInMatch
C3_DuplicateReached ==
    \E source \in Providers, job_id \in JobIds, start_delay \in Delays :
        /\ Holds(source, job_id)
        /\ propose_matching(Stores, Matcher, OneSource(job_id, source, start_delay),
                            now, TRUE).err = "DuplicateSourceInMatch"

\* C4: every stored Assignment has sla.met <= sla.total, where sla.total is the
\* execution_count of the job's schedule; a report made when sla.met = sla.total
\* fails with MoreReportsThanExpected and changes nothing.
C4_ReportsNeverExceedTotal ==
    \A source \in Providers, job_id \in JobIds :
        Holds(source, job_id) =>
            /\ Unwrap(StoredMatches[source][job_id]).sla.met
                 <= Unwrap(StoredMatches[source][job_id]).sla.total
            /\ IsSome(StoredJobRegistration[job_id]) =>
                 Unwrap(StoredMatches[source][job_id]).sla.total
                   = execution_count(Unwrap(StoredJobRegistration[job_id]).schedule)
            /\ Unwrap(StoredMatches[source][job_id]).sla.met
                 = Unwrap(StoredMatches[source][job_id]).sla.total
               => \A last_ \in BOOLEAN, pay_ok \in BOOLEAN :
                      With(report(Stores, source, job_id, last_, "Success", now, pay_ok),
                           LAMBDA r : r.err = "MoreReportsThanExpected" /\ r.st = Stores)

\* an Assignment all of whose sla.total reports were made
C4_AllReportsMade ==
    \E source \in Providers, job_id \in JobIds :
        /\ Holds(source, job_id)
        /\ Unwrap(StoredMatches[source][job_id]).sla.total > 0
        /\ Unwrap(StoredMatches[source][job_id]).sla.met
             = Unwrap(StoredMatches[source][job_id]).sla.total

\* the stores with the remaining capacity of the source raised to 1
WithCapacity(source) == [Stores EXCEPT !.cap[source] = Some(1)]

\* C5: a propose_matching naming a provider whose remaining capacity is <= 0 fails
\* and creates no Assignment for that provider; the error is
\* InsufficientStorageCapacityInMatch whenever the call is acceptable but for the
\* capacity (it succeeds with that provider's remaining capacity at 1).
C5_NoCapacityNoMatch ==
    \A matches \in MatchingInputs, source \in Providers :
        ( /\ source \in SourcesOf(matches)
          /\ IsSome(StoredStorageCapacity[source])
          /\ Unwrap(StoredStorageCapacity[source]) <= 0 )
        => With(propose_matching(Stores, Matcher, matches, now, TRUE), LAMBDA r :
               /\ r.err # OK
               /\ r.st.matches[source] = StoredMatches[source]
               /\ propose_matching(WithCapacity(source), Matcher, matches, now, TRUE).err = OK
                  => r.err = "InsufficientStorageCapacityInMatch")

\* a provider whose remaining capacity is negative is named in a call that is
\* acceptable but for the capacity
C5_NegativeCapacityNamed ==
    \E matches \in MatchingInputs, source \in Providers :
        /\ source \in SourcesOf(matches)
        /\ IsSome(StoredStorageCapacity[source])
        /\ Unwrap(StoredStorageCapacity[source]) < 0
        /\ propose_matching(WithCapacity(source), Matcher, matches, now, TRUE).err = OK

\* what the Assignments of the slots of match m, from slot k on, cost over all
\* executions of the job: fee_per_execution * execution_count, summed
RECURSIVE SlotFees(_, _, _)
SlotFees(st, m, k) ==
    IF k > Len(m.sources) THEN 0
    ELSE Unwrap(st.matches[m.sources[k].source][m.job_id]).fee_per_execution.amount
           * execution_count(Unwrap(st.reg[m.job_id]).schedule)
         + SlotFees(st, m, k + 1)

RECURSIVE SumOf(_)
SumOf(amounts) == IF amounts = << >> THEN 0 ELSE Head(amounts) + SumOf(Tail(amounts))

\* C6: after a successful propose_matching, for each matched job the fees of its
\* slots' Assignments over all executions plus the remainder (diff) of the job
\* equal total_reward_amount = per-slot reward * slots * execution_count, and the
\* reward handed to the matcher is the sum of the remainders of the jobs.
C6_RewardConserved ==
    \A matches \in MatchingInputs :
        With(propose_matching(Stores, Matcher, matches, now, TRUE), LAMBDA r :
            r.err = OK =>
                With(process_matching(Stores, matches, now).diffs, LAMBDA diffs :
                    /\ Len(diffs) = Len(matches)
                    /\ \A i \in 1..Len(matches) :
                         LET registration == Unwrap(StoredJobRegistration[matches[i].job_id])
                         IN /\ SlotFees(r.st, matches[i], 1) + diffs[i]
                                 = Unwrap(total_reward_amount(registration))
                            /\ Unwrap(total_reward_amount(registration))
                                 = registration.extra.reward.amount
                                     * registration.extra.slots
                                     * execution_count(registration.schedule)
                    /\ r.st.pay
                         = << [ kind |-> "pay_matcher_reward",
                                reward |-> [asset |-> "a1", amount |-> SumOf(diffs)],
                                account |-> Matcher ] >>))

\* a successful call of two jobs, one of two slots whose sources ask different
\* fees, over a schedule of more than one execution, with a remainder
C6_TwoJobsTwoPrices ==
    \E matches \in MatchingInputs :
        /\ Len(matches) = 2
        /\ matches[1].job_id # matches[2].job_id
        /\ With(propose_matching(Stores, Matcher, matches, now, TRUE), LAMBDA r :
              /\ r.err = OK
              /\ r.st.pay[1].reward.amount > 0
              /\ \E i \in 1..2 :
                    /\ Len(matches[i].sources) = 2
                    /\ execution_count(Unwrap(StoredJobRegistration[matches[i].job_id]).schedule) > 1
                    /\ Unwrap(r.st.matches[matches[i].sources[1].source][matches[i].job_id]).fee_per_execution
                         # Unwrap(r.st.matches[matches[i].sources[2].source][matches[i].job_id]).fee_per_execution)

\* every source of every match holds an Assignment for the job of the match
AllAssigned(st, matches) ==
    \A i \in 1..Len(matches) : \A k \in 1..Len(matches[i].sources) :
        IsSome(st.matches[matches[i].sources[k].source][matches[i].job_id])

\* C7: a propose_matching invokes pay_matcher_reward at most once; when it does,
\* process_matching has returned Ok for the whole call, the reward is the one it
\* returned and the stores the payout is made on hold an Assignment for every
\* slot of every match; a call whose process_matching fails invokes it never.
C7_MatcherPaidOnceAfterValidation ==
    \A matches \in MatchingInputs, pay_ok \in BOOLEAN :
        With(propose_matching(Stores, Matcher, matches, now, pay_ok), LAMBDA r :
            With(process_matching(Stores, matches, now), LAMBDA v :
                /\ Len(r.st.pay) <= 1
                /\ v.err # OK => (r.st.pay = << >> /\ r.err = v.err)
                /\ v.err = OK =>
                     /\ AllAssigned(v.st, matches)
                     /\ r.st.pay = reward_manager(v.st, "pay_matcher_reward",
                                                  Unwrap(v.reward), Matcher).pay
                     /\ pay_ok => (r.err = OK /\ r.st.matches = v.st.matches)))

\* in one state, a call of two matches that is paid, and a call of two matches
\* whose first match passes every check and whose second fails
C7_PaidAndUnpaidCalls ==
    /\ \E matches \in MatchingInputs :
          /\ Len(matches) = 2
          /\ Len(propose_matching(Stores, Matcher, matches, now, TRUE).st.pay) = 1
    /\ \E matches \in MatchingInputs :
          /\ Len(matches) = 2
          /\ process_matching(Stores, << matches[1] >>, now).err = OK
          /\ process_matching(Stores, matches, now).err # OK
          /\ process_matching(Stores, matches, now).st.matches # StoredMatches

\* the sources that hold an Assignment for the job
AssignedSources(job_id) == { source \in Providers : Holds(source, job_id) }

\* C8: either all or no slots of a job are assigned: a match whose number of
\* planned executions differs from the slots of the job fails with
\* IncorrectSourceCountInMatch, and the number of Assignments for a registered job
\* is 0 or the slots of its registration.
C8_AllOrNoSlotsAssigned ==
    /\ \A job_id \in JobIds, sources \in SourcesInputs :
          ( /\ IsSome(StoredJobRegistration[job_id])
            /\ now < Unwrap(StoredJobRegistration[job_id]).schedule.start_time
            /\ Len(sources) # Unwrap(StoredJobRegistration[job_id]).extra.slots )
          => propose_matching(Stores, Matcher,
                              << [job_id |-> job_id, sources |-> sources] >>,
                              now, TRUE).err = "IncorrectSourceCountInMatch"
    /\ \A job_id \in JobIds :
          IsSome(StoredJobRegistration[job_id]) =>
              Cardinality(AssignedSources(job_id))
                \in {0, Unwrap(StoredJobRegistration[job_id]).extra.slots}

\* C9: a stored JobStatus is Open, Matched or Assigned(n) with 1 <= n <= slots of
\* the registration of the job.
C9_StatusWithinSlots ==
    \A job_id \in JobIds :
        IsSome(StoredJobStatus[job_id]) =>
            \/ Unwrap(StoredJobStatus[job_id]) \in {Open, Matched}
            \/ /\ Unwrap(StoredJobStatus[job_id]).tag = "Assigned"
               /\ IsSome(StoredJobRegistration[job_id])
               /\ 1 <= Unwrap(StoredJobStatus[job_id]).count
               /\ Unwrap(StoredJobStatus[job_id]).count
                    <= Unwrap(StoredJobRegistration[job_id]).extra.slots

\* C10: acknowledge_match by a source holding an unacknowledged Assignment for
\* the job sets the Assignment's acknowledged flag, advances the status of the
\* job (Matched to Assigned(1), Assigned(n) to Assigned(n+1)) and deposits
\* JobRegistrationAssigned once; a caller without an Assignment for the job gets
\* CannotAcknowledgeWhenNotMatched and nothing changes.
C10_AcknowledgeAdvances ==
    \A source \in Providers, job_id \in JobIds :
        With(acknowledge_match(Stores, source, job_id), LAMBDA r :
            /\ ~Holds(source, job_id) =>
                 (r.err = "CannotAcknowledgeWhenNotMatched" /\ r.st = Stores)
            /\ (Holds(source, job_id) /\ ~Unwrap(StoredMatches[source][job_id]).acknowledged) =>
                 /\ r.err = OK
                 /\ r.st.matches
                      = [StoredMatches EXCEPT ![source][job_id] =
                           Some([Unwrap(@) EXCEPT !.acknowledged = TRUE])]
                 /\ IsSome(StoredJobStatus[job_id])
                 /\ r.st.status
                      = [StoredJobStatus EXCEPT ![job_id] =
                           Some(IF Unwrap(@) = Matched THEN Assigned(1)
                                ELSE Assigned(Unwrap(@).count + 1))]
                 /\ Len(r.st.ev) = 1
                 /\ r.st.ev[1].name = "JobRegistrationAssigned")

\* C11: acknowledge_match is idempotent: by a source whose Assignment for the job
\* is acknowledged already it returns Ok, leaves the Assignment and the JobStatus
\* (and every other store) as they are and deposits no event.
C11_AcknowledgeIdempotent ==
    \A source \in Providers, job_id \in JobIds :
        (Holds(source, job_id) /\ Unwrap(StoredMatches[source][job_id]).acknowledged) =>
            With(acknowledge_match(Stores, source, job_id), LAMBDA r :
                /\ r.err = OK
                /\ r.st.matches = StoredMatches
                /\ r.st.status = StoredJobStatus
                /\ r.st.ev = << >>
                /\ r.st = Stores)

\* a source has acknowledged its Assignment and the job is Assigned(n)
C11_Acknowledged ==
    \E source \in Providers, job_id \in JobIds :
        /\ Holds(source, job_id)
        /\ Unwrap(StoredMatches[source][job_id]).acknowledged
        /\ IsSome(StoredJobStatus[job_id])
        /\ Unwrap(StoredJobStatus[job_id]).tag = "Assigned"

\* C12: a report by a caller without an Assignment for the job fails with
\* ReportFromUnassignedSource, a report by a caller whose Assignment is not
\* acknowledged fails with CannotReportWhenNotAcknowledged; either way the stores
\* (sla.met among them) are unchanged and pay_reward is not invoked.
C12_ReportNeedsAcknowledgement ==
    \A source \in Providers, job_id \in JobIds, last_ \in BOOLEAN,
       execution_result \in {"Success", "Failure"}, pay_ok \in BOOLEAN :
        With(report(Stores, source, job_id, last_, execution_result, now, pay_ok),
             LAMBDA r :
                /\ ~Holds(source, job_id) =>
                     (r.err = "ReportFromUnassignedSource" /\ r.st = Stores)
                /\ (Holds(source, job_id)
                      /\ ~Unwrap(StoredMatches[source][job_id]).acknowledged) =>
                     (r.err = "CannotReportWhenNotAcknowledged" /\ r.st = Stores))

\* a source holds an Assignment it has not acknowledged, at a time when a report
\* on it would be inside the report window
C12_UnacknowledgedInWindow ==
    \E source \in Providers, job_id \in JobIds :
        /\ Holds(source, job_id)
        /\ ~Unwrap(StoredMatches[source][job_id]).acknowledged
        /\ IsSome(StoredJobRegistration[job_id])
        /\ schedule_overlaps(Unwrap(StoredJobRegistration[job_id]).schedule,
                             Unwrap(StoredMatches[source][job_id]).start_delay,
                             now, now + ReportTolerance) = Some(TRUE)

\* C13: a successful report with last = false increases sla.met of the caller's
\* Assignment by 1 and leaves the rest of the Assignment, the other Assignments,
\* the JobStatus, the JobRegistration, the capacities and the advertisements as
\* they are.
C13_ReportCountsOne ==
    \A source \in Providers, job_id \in JobIds,
       execution_result \in {"Success", "Failure"} :
        With(report(Stores, source, job_id, FALSE, execution_result, now, TRUE),
             LAMBDA r :
                r.err = OK =>
                    /\ r.st.matches
                         = [StoredMatches EXCEPT ![source][job_id] =
                              Some([Unwrap(@) EXCEPT !.sla.met = @ + 1])]
                    /\ r.st.status = StoredJobStatus
                    /\ r.st.reg = StoredJobRegistration
                    /\ r.st.cap = StoredStorageCapacity
                    /\ r.st.ad = StoredAdvertisementRestriction
                    /\ r.st.pricing = StoredAdvertisementPricing)

\* a report with last = false has been made and another one succeeds
C13_SecondReport ==
    \E source \in Providers, job_id \in JobIds :
        /\ Holds(source, job_id)
        /\ Unwrap(StoredMatches[source][job_id]).sla.met = 1
        /\ report(Stores, source, job_id, FALSE, "Success", now, TRUE).err = OK

\* C14: a successful report with last = true removes the caller's Assignment for
\* the job, the JobStatus and the JobRegistration of the job and increases the
\* caller's remaining capacity by registration.storage, so that the capacity is
\* what it was before the match: with no Assignment left, the capacity advertised.
C14_FinalReportRestoresCapacity ==
    \A source \in Providers, job_id \in JobIds,
       execution_result \in {"Success", "Failure"} :
        With(report(Stores, source, job_id, TRUE, execution_result, now, TRUE),
             LAMBDA r :
                r.err = OK =>
                    /\ r.st.matches = [StoredMatches EXCEPT ![source][job_id] = None]
                    /\ r.st.status = [StoredJobStatus EXCEPT ![job_id] = None]
                    /\ r.st.reg = [StoredJobRegistration EXCEPT ![job_id] = None]
                    /\ r.st.cap
                         = [StoredStorageCapacity EXCEPT ![source] =
                              Some(Unwrap(@) + Unwrap(StoredJobRegistration[job_id]).storage)]
                    /\ ~has_matches(r.st, source) =>
                         r.st.cap[source]
                           = Some(Unwrap(StoredAdvertisementRestriction[source]).storage_capacity))

\* the source holds an acknowledged Assignment for a registered job, with reports
\* still expected
CanReport(source, job_id) ==
    /\ Holds(source, job_id)
    /\ Unwrap(StoredMatches[source][job_id]).acknowledged
    /\ reports_expected(Unwrap(StoredMatches[source][job_id]))
    /\ IsSome(StoredJobRegistration[job_id])

\* overlaps(start_delay, now, now + ReportTolerance) of the job's schedule
InWindow(source, job_id) ==
    schedule_overlaps(Unwrap(StoredJobRegistration[job_id]).schedule,
                      Unwrap(StoredMatches[source][job_id]).start_delay,
                      now, now + ReportTolerance)

\* the stores with the start_delay of the Assignment replaced
WithStartDelay(source, job_id, start_delay) ==
    [Stores EXCEPT !.matches[source][job_id] =
        Some([Unwrap(@) EXCEPT !.start_delay = start_delay])]

\* C15: a report is accepted only if [now, now + ReportTolerance] overlaps an
\* execution of the schedule shifted by the Assignment's start_delay; otherwise
\* it fails with ReportOutsideSchedule, or with CalculationOverflow when the
\* shifted schedule overflows, and after the failure the stores (sla.met among
\* them) are as before and pay_reward is not invoked.
C15_ReportOnlyInsideWindow ==
    \A source \in Providers, job_id \in JobIds, last_ \in BOOLEAN, pay_ok \in BOOLEAN :
        CanReport(source, job_id) =>
            /\ With(report(Stores, source, job_id, last_, "Success", now, pay_ok),
                    LAMBDA r :
                       /\ InWindow(source, job_id) = Some(FALSE) =>
                            (r.err = "ReportOutsideSchedule" /\ r.st = Stores)
                       /\ r.err \in {OK, "FailedToPay"} =>
                            InWindow(source, job_id) = Some(TRUE))
            /\ With(report(WithStartDelay(source, job_id, U64_MAX), source, job_id,
                           last_, "Success", now, pay_ok),
                    LAMBDA r :
                       /\ r.err = "CalculationOverflow"
                       /\ r.st = WithStartDelay(source, job_id, U64_MAX))

\* an acknowledged Assignment with reports expected, at a time outside the
\* report window of every execution
C15_OutsideWindow ==
    \E source \in Providers, job_id \in JobIds :
        CanReport(source, job_id) /\ InWindow(source, job_id) = Some(FALSE)

\* C16: a successful report, with last true or false, invokes pay_reward once,
\* with the fee_per_execution of the Assignment and the reporting source as
\* payee, after every check of the call has passed; a report that fails a check
\* does not invoke it.
C16_ProviderPaidOncePerReport ==
    \A source \in Providers, job_id \in JobIds, last_ \in BOOLEAN,
       execution_result \in {"Success", "Failure"}, pay_ok \in BOOLEAN :
        With(report(Stores, source, job_id, last_, execution_result, now, pay_ok),
             LAMBDA r :
                /\ r.err \notin {OK, "FailedToPay"} => r.st.pay = << >>
                /\ r.err \in {OK, "FailedToPay"} =>
                     /\ CanReport(source, job_id)
                     /\ InWindow(source, job_id) = Some(TRUE)
                     /\ r.st.pay
                          = << [ kind |-> "pay_reward",
                                 reward |-> Unwrap(StoredMatches[source][job_id]).fee_per_execution,
                                 account |-> source ] >>
                /\ r.err = OK <=> (pay_ok /\ r.st.pay # << >>))

\* in one state a report with last = true succeeds and a report of another
\* source or job fails a check
C16_PaidAndUnpaidReports ==
    /\ \E source \in Providers, job_id \in JobIds :
          report(Stores, source, job_id, TRUE, "Success", now, TRUE).err = OK
    /\ \E source \in Providers, job_id \in JobIds :
          /\ Holds(source, job_id)
          /\ report(Stores, source, job_id, FALSE, "Success", now, TRUE).err
               \notin {OK, "FailedToPay"}

\* the source holds an Assignment for some job
HoldsSome(source) == \E job_id \in JobIds : Holds(source, job_id)

\* C17: delete_advertisement by a source that holds an Assignment fails with
\* CannotDeleteAdvertisementWhileMatched and changes nothing; by a source without
\* an advertisement it fails with AdvertisementNotFound; otherwise it removes the
\* restriction, every pricing variant and the capacity of the source and nothing
\* else, and then every propose_matching naming the source fails, with
\* AdvertisementNotFound when it was acceptable before the removal.
C17_DeleteAdvertisement ==
    \A source \in Providers :
        With(delete_advertisement(Stores, source), LAMBDA r :
            /\ HoldsSome(source) =>
                 (r.err = "CannotDeleteAdvertisementWhileMatched" /\ r.st = Stores)
            /\ ~IsSome(StoredAdvertisementRestriction[source]) =>
                 (r.err = "AdvertisementNotFound" /\ r.st = Stores)
            /\ (IsSome(StoredAdvertisementRestriction[source])
                  /\ ~HoldsSome(source)) =>
                 /\ r.err = OK
                 /\ r.st.ad = [StoredAdvertisementRestriction EXCEPT ![source] = None]
                 /\ r.st.pricing
                      = [StoredAdvertisementPricing EXCEPT
                           ![source] = [asset \in Assets |-> None]]
                 /\ r.st.cap = [StoredStorageCapacity EXCEPT ![source] = None]
                 /\ r.st.matches = StoredMatches
                 /\ r.st.reg = StoredJobRegistration
                 /\ r.st.status = StoredJobStatus
                 /\ \A matches \in MatchingInputs :
                      source \in SourcesOf(matches) =>
                          With(propose_matching([r.st EXCEPT !.ev = << >>], Matcher,
                                                matches, now, TRUE).err,
                               LAMBDA err :
                                  /\ err # OK
                                  /\ propose_matching(Stores, Matcher, matches, now,
                                                      TRUE).err = OK
                                     => err = "AdvertisementNotFound"))

\* a source with an advertisement holds an Assignment, another source with an
\* advertisement holds none and can be matched
C17_MatchedAndFree ==
    /\ \E source \in Providers :
          IsSome(StoredAdvertisementRestriction[source]) /\ HoldsSome(source)
    /\ \E source \in Providers, matches \in MatchingInputs :
          /\ IsSome(StoredAdvertisementRestriction[source])
          /\ ~HoldsSome(source)
          /\ source \in SourcesOf(matches)
          /\ propose_matching(Stores, Matcher, matches, now, TRUE).err = OK

\* the assets for which the source has a pricing variant stored
PricedAssets(pricing, source) ==
    { asset \in Assets : IsSome(pricing[source][asset]) }

\* C17 within the limit of clear_prefix: the two refusals and the failing
\* propose_matching are as stated, and a successful delete_advertisement removes
\* every pricing variant of the source that the current block has written and
\* MAX_PRICING_VARIANTS of those committed by earlier blocks, hence all of them
\* when no more than MAX_PRICING_VARIANTS are committed, and leaves the others
\* as they were.
C17_DeleteAdvertisementUpToLimit ==
    \A source \in Providers :
        With(delete_advertisement(Stores, source), LAMBDA r :
            /\ HoldsSome(source) =>
                 (r.err = "CannotDeleteAdvertisementWhileMatched" /\ r.st = Stores)
            /\ ~IsSome(StoredAdvertisementRestriction[source]) =>
                 (r.err = "AdvertisementNotFound" /\ r.st = Stores)
            /\ (IsSome(StoredAdvertisementRestriction[source])
                  /\ ~HoldsSome(source)) =>
                 LET before == PricedAssets(StoredAdvertisementPricing, source)
                     after == PricedAssets(r.st.pricing, source)
                     settled == CommittedPricing[source] \ OverlaidPricing[source]
                     beyond ==
                        IF Cardinality(CommittedPricing[source]) > MAX_PRICING_VARIANTS
                        THEN Cardinality(CommittedPricing[source]) - MAX_PRICING_VARIANTS
                        ELSE 0
                 IN
                 /\ r.err = OK
                 /\ r.st.ad = [StoredAdvertisementRestriction EXCEPT ![source] = None]
                 /\ after \subseteq before \cap settled
                 /\ Cardinality(after) <= beyond
                 /\ OverlaidPricing[source] = {} => Cardinality(after) = beyond
                 /\ \A asset \in after :
                      r.st.pricing[source][asset]
                        = StoredAdvertisementPricing[source][asset]
                 /\ \A other \in Providers \ {source} :
                      r.st.pricing[other] = StoredAdvertisementPricing[other]
                 /\ r.st.cap = [StoredStorageCapacity EXCEPT ![source] = None]
                 /\ r.st.matches = StoredMatches
                 /\ r.st.reg = StoredJobRegistration
                 /\ r.st.status = StoredJobStatus
                 /\ \A matches \in MatchingInputs :
                      source \in SourcesOf(matches) =>
                          With(propose_matching([r.st EXCEPT !.ev = << >>], Matcher,
                                                matches, now, TRUE).err,
                               LAMBDA err :
                                  /\ err # OK
                                  /\ propose_matching(Stores, Matcher, matches, now,
                                                      TRUE).err = OK
                                     => err = "AdvertisementNotFound"))

\* a source without an Assignment has an advertisement and more pricing variants
\* than MAX_PRICING_VARIANTS, stored by two calls of advertise in earlier blocks
C17_MoreVariantsThanLimit ==
    \E source \in Providers :
        /\ IsSome(StoredAdvertisementRestriction[source])
        /\ ~HoldsSome(source)
        /\ Cardinality(CommittedPricing[source]) > MAX_PRICING_VARIANTS
        /\ OverlaidPricing[source] = {}
        /\ PricedAssets(delete_advertisement(Stores, source).st.pricing, source) # {}

\* such a source has stored more pricing variants than MAX_PRICING_VARIANTS, one
\* of them in the current block, and delete_advertisement removes them all
C17_MoreVariantsInOneBlock ==
    \E source \in Providers :
        /\ IsSome(StoredAdvertisementRestriction[source])
        /\ ~HoldsSome(source)
        /\ Cardinality(PricedAssets(StoredAdvertisementPricing, source))
             > MAX_PRICING_VARIANTS
        /\ Cardinality(CommittedPricing[source]) = MAX_PRICING_VARIANTS
        /\ PricedAssets(delete_advertisement(Stores, source).st.pricing, source) = {}

\* the schedule of the registered job has started
Started(job_id) ==
    /\ IsSome(StoredJobRegistration[job_id])
    /\ now >= Unwrap(StoredJobRegistration[job_id]).schedule.start_time

\* C18: a job cannot be matched once its schedule has started: a propose_matching
\* naming a registered job with now >= schedule.start_time fails, with OverdueMatch
\* when that job is the first of the call, and every step that creates an
\* Assignment happens at a time strictly before the start_time of its job.
C18_NoMatchAfterStart ==
    /\ [](\A job_id \in JobIds : Started(job_id) =>
            \A matches \in MatchingInputs : job_id \in JobsOf(matches) =>
                With(propose_matching(Stores, Matcher, matches, now, TRUE).err,
                     LAMBDA err :
                        /\ err # OK
                        /\ matches[1].job_id = job_id => err = "OverdueMatch"))
    /\ [][\A source \in Providers, job_id \in JobIds :
            (~IsSome(StoredMatches[source][job_id])
               /\ IsSome(StoredMatches'[source][job_id])) =>
                /\ IsSome(StoredJobRegistration[job_id])
                /\ now < Unwrap(StoredJobRegistration[job_id]).schedule.start_time]_vars

\* the schedule of a job has started, one source was assigned to it before and
\* another source with an advertisement is named for it now
C18_StartedAndAdvertised ==
    \E job_id \in JobIds, source, other \in Providers :
        /\ Started(job_id)
        /\ Holds(source, job_id)
        /\ ~Holds(other, job_id)
        /\ IsSome(StoredAdvertisementRestriction[other])
        /\ propose_matching(Stores, Matcher, OneSource(job_id, other, 0), now,
                            TRUE).err = "OverdueMatch"

\* the reward of the registered job
RewardOf(job_id) == Unwrap(StoredJobRegistration[job_id]).extra.reward

\* the call names two different registered jobs, its first match is accepted on
\* its own and its second match is accepted on its own after the first
TwoAcceptable(matches) ==
    /\ Len(matches) = 2
    /\ matches[1].job_id # matches[2].job_id
    /\ \A i \in 1..2 : IsSome(StoredJobRegistration[matches[i].job_id])
    /\ With(process_matching(Stores, << matches[1] >>, now), LAMBDA first :
          /\ first.err = OK
          /\ process_matching(first.st, << matches[2] >>, now).err = OK)

\* the remainders of the two matches when each is proposed on its own
Remainders(matches) ==
    With(process_matching(Stores, << matches[1] >>, now), LAMBDA first :
        first.diffs \o process_matching(first.st, << matches[2] >>, now).diffs)

\* C19: a propose_matching of two jobs, each acceptable on its own, fails with
\* MultipleRewardAssetsInMatch when the jobs are rewarded in different assets, and
\* succeeds paying the sum of the two remainders in the common asset when the jobs
\* are rewarded in the same asset, whatever their per-execution reward amounts.
C19_SameAssetSummed ==
    \A matches \in MatchingInputs : TwoAcceptable(matches) =>
        With(propose_matching(Stores, Matcher, matches, now, TRUE), LAMBDA r :
            IF RewardOf(matches[1].job_id).asset # RewardOf(matches[2].job_id).asset
            THEN r.err = "MultipleRewardAssetsInMatch"
            ELSE /\ r.err = OK
                 /\ r.st.pay
                      = << [ kind |-> "pay_matcher_reward",
                             reward |-> [asset |-> RewardOf(matches[1].job_id).asset,
                                         amount |-> SumOf(Remainders(matches))],
                             account |-> Matcher ] >>)

\* the stores with the per-execution reward of the job set to amount
WithRewardAmount(job_id, amount) ==
    [Stores EXCEPT !.reg[job_id] =
        Some([Unwrap(@) EXCEPT !.extra.reward.amount = amount])]

\* the fee the source asks for one execution of the registered job
AskedFee(source, job_id) ==
    fee_per_execution(Unwrap(StoredJobRegistration[job_id]),
                      Unwrap(StoredAdvertisementPricing[source][RewardOf(job_id).asset]))

\* what the Assignments the sources hold for the job cost over all executions of
\* the job: fee_per_execution * execution_count, summed
RECURSIVE FeesOf(_, _)
FeesOf(sources, job_id) ==
    IF sources = {} THEN 0
    ELSE LET source == CHOOSE p \in sources : TRUE
         IN Unwrap(StoredMatches[source][job_id]).fee_per_execution.amount
              * execution_count(Unwrap(StoredJobRegistration[job_id]).schedule)
            + FeesOf(sources \ {source}, job_id)

TotalFee(job_id) == FeesOf(AssignedSources(job_id), job_id)

\* C20: a slot is admitted only if the fee of its source is at most the reward
\* amount of the job: a propose_matching of one slot whose fee exceeds the reward
\* fails, with InsufficientRewardInMatch when it is accepted with the reward raised
\* to the fee; every stored Assignment of a registered job has fee_per_execution <=
\* the reward amount of the job, and the fees of the Assignments of a registered job
\* over all its executions never exceed total_reward_amount.
C20_FeesWithinReward ==
    /\ \A job_id \in JobIds, source \in Providers, start_delay \in Delays :
          ( /\ IsSome(StoredJobRegistration[job_id])
            /\ IsSome(StoredAdvertisementPricing[source][RewardOf(job_id).asset])
            /\ IsSome(AskedFee(source, job_id))
            /\ Unwrap(AskedFee(source, job_id)) > RewardOf(job_id).amount )
          => With(propose_matching(Stores, Matcher,
                                   OneSource(job_id, source, start_delay), now,
                                   TRUE).err,
                  LAMBDA err :
                     /\ err # OK
                     /\ propose_matching(
                            WithRewardAmount(job_id, Unwrap(AskedFee(source, job_id))),
                            Matcher, OneSource(job_id, source, start_delay), now,
                            TRUE).err = OK
                        => err = "InsufficientRewardInMatch")
    /\ \A job_id \in JobIds : IsSome(StoredJobRegistration[job_id]) =>
          /\ \A source \in AssignedSources(job_id) :
                Unwrap(StoredMatches[source][job_id]).fee_per_execution.amount
                  <= RewardOf(job_id).amount
          /\ TotalFee(job_id)
                <= Unwrap(total_reward_amount(Unwrap(StoredJobRegistration[job_id])))

FeeInputs == {0, 1, HalfAmount, AMOUNT_MAX - 1, AMOUNT_MAX}
DurationInputs == {0, 1, 2, 3}
StorageInputs == {0, 1, 2}

\* the fee of one execution as an exact integer
ExactFee(registration, pricing) ==
    pricing.fee_per_millisecond * registration.schedule.duration
      + pricing.fee_per_storage_byte * registration.storage
      + pricing.base_fee_per_execution

\* the products and sums of the fee all fit the amount type
FeeFits(registration, pricing) ==
    /\ pricing.fee_per_millisecond * registration.schedule.duration <= AMOUNT_MAX
    /\ pricing.fee_per_storage_byte * registration.storage <= AMOUNT_MAX
    /\ pricing.fee_per_millisecond * registration.schedule.duration
         + pricing.fee_per_storage_byte * registration.storage <= AMOUNT_MAX
    /\ ExactFee(registration, pricing) <= AMOUNT_MAX

\* the stores with the pricing of the source for the asset replaced by a fee of 1
WithUnitFee(source, asset) ==
    [Stores EXCEPT !.pricing[source][asset] = Some(Pricing(asset, 0, 0, 1))]

\* C21: fee_per_execution is fee_per_millisecond * duration + fee_per_storage_byte
\* * storage + base_fee_per_execution when every product and sum fits the amount
\* type and an overflow otherwise; a propose_matching that succeeds stores that
\* exact fee, and one whose fee overflows aborts leaving the stores as they were,
\* with CalculationOverflow when it is accepted at a fee of 1.
C21_FeeExactOrOverflow ==
    /\ \A per_ms, per_byte, base \in FeeInputs, duration \in DurationInputs,
          storage \in StorageInputs :
          LET registration ==
                Registration([ScheduleA EXCEPT !.duration = duration], storage, 1, Reward1)
              pricing == Pricing("a1", per_ms, per_byte, base)
          IN fee_per_execution(registration, pricing)
               = IF FeeFits(registration, pricing)
                 THEN Some(ExactFee(registration, pricing))
                 ELSE None
    /\ \A job_id \in JobIds, source \in Providers :
          ( /\ IsSome(StoredJobRegistration[job_id])
            /\ IsSome(StoredAdvertisementPricing[source][RewardOf(job_id).asset]) )
          => LET registration == Unwrap(StoredJobRegistration[job_id])
                 pricing ==
                   Unwrap(StoredAdvertisementPricing[source][RewardOf(job_id).asset])
             IN With(propose_matching(Stores, Matcher, OneSource(job_id, source, 0),
                                      now, TRUE),
                     LAMBDA r :
                        /\ r.err = OK =>
                             /\ FeeFits(registration, pricing)
                             /\ Unwrap(r.st.matches[source][job_id]).fee_per_execution.amount
                                  = ExactFee(registration, pricing)
                        /\ ~FeeFits(registration, pricing) =>
                             /\ r.err # OK
                             /\ r.st = Stores
                             /\ propose_matching(
                                    WithUnitFee(source, RewardOf(job_id).asset), Matcher,
                                    OneSource(job_id, source, 0), now, TRUE).err = OK
                                => r.err = "CalculationOverflow")

\* a propose_matching fails with CalculationOverflow because the product
\* fee_per_millisecond * duration overflows while the other product fits
C21_ProductOverflows ==
    \E job_id \in JobIds, source \in Providers :
        /\ IsSome(StoredJobRegistration[job_id])
        /\ IsSome(StoredAdvertisementPricing[source][RewardOf(job_id).asset])
        /\ propose_matching(Stores, Matcher, OneSource(job_id, source, 0), now,
                            TRUE).err = "CalculationOverflow"
        /\ LET registration == Unwrap(StoredJobRegistration[job_id])
               pricing == Unwrap(StoredAdvertisementPricing[source][RewardOf(job_id).asset])
           IN /\ pricing.fee_per_millisecond * registration.schedule.duration > AMOUNT_MAX
              /\ pricing.fee_per_storage_byte * registration.storage <= AMOUNT_MAX

\* a propose_matching of the job with the one source gets as far as the checks of
\* the advertisement: the job is registered with one slot and has not started, it
\* accepts the source unverified or the source is verified, and the source has an
\* advertisement with a pricing for the reward asset of the job
ReachesAdvertisementChecks(job_id, source) ==
    /\ IsSome(StoredJobRegistration[job_id])
    /\ now < Unwrap(StoredJobRegistration[job_id]).schedule.start_time
    /\ Unwrap(StoredJobRegistration[job_id]).extra.slots = 1
    /\ \/ ~Unwrap(StoredJobRegistration[job_id]).allow_only_verified_sources
       \/ ensure_source_verified(source)
    /\ IsSome(StoredAdvertisementRestriction[source])
    /\ IsSome(StoredAdvertisementPricing[source][RewardOf(job_id).asset])

\* the stores with the scheduling window of the pricing replaced by the widest
WithWidestWindow(source, asset) ==
    [Stores EXCEPT !.pricing[source][asset] =
        Some([Unwrap(@) EXCEPT !.scheduling_window = [kind |-> "End", value |-> U64_MAX]])]

WindowDelays == {0, 3, 4, U64_MAX}

\* C22: with End(deadline) a slot is admitted iff deadline >= end_time + start_delay,
\* with Delta(window) iff now + window >= end_time + start_delay: when a sum
\* overflows the call fails with CalculationOverflow, when the inequality is
\* violated it fails with SchedulingWindowExceededInMatch, and when it holds the
\* call ends as it does with the widest window.
C22_WindowAdmits ==
    \A job_id \in JobIds, source \in Providers, start_delay \in WindowDelays :
        ReachesAdvertisementChecks(job_id, source) =>
            LET asset == RewardOf(job_id).asset
                window == Unwrap(StoredAdvertisementPricing[source][asset]).scheduling_window
                window_end == IF window.kind = "End" THEN window.value
                              ELSE now + window.value
                delayed_end == Unwrap(StoredJobRegistration[job_id]).schedule.end_time
                                 + start_delay
                matches == OneSource(job_id, source, start_delay)
            IN With(propose_matching(Stores, Matcher, matches, now, TRUE).err,
                    LAMBDA err :
                       IF window_end > U64_MAX \/ delayed_end > U64_MAX
                       THEN err = "CalculationOverflow"
                       ELSE IF window_end >= delayed_end
                       THEN err = propose_matching(WithWidestWindow(source, asset),
                                                   Matcher, matches, now, TRUE).err
                       ELSE err = "SchedulingWindowExceededInMatch")

\* the deadline of the source admits the job without delay, being met exactly, and
\* rejects the job delayed by 4
DeadlineMetExactly(source) ==
    /\ ReachesAdvertisementChecks(TheJob, source)
    /\ Unwrap(StoredAdvertisementPricing[source]["a1"]).scheduling_window
         = [kind |-> "End",
            value |-> Unwrap(StoredJobRegistration[TheJob]).schedule.end_time]
    /\ propose_matching(Stores, Matcher, OneSource(TheJob, source, 0), now, TRUE).err = OK
    /\ propose_matching(Stores, Matcher, OneSource(TheJob, source, 4), now, TRUE).err
         = "SchedulingWindowExceededInMatch"

\* now + delta of the window of the source overflows
DeltaOverflows(source) ==
    /\ ReachesAdvertisementChecks(TheJob, source)
    /\ Unwrap(StoredAdvertisementPricing[source]["a1"]).scheduling_window.kind = "Delta"
    /\ now + Unwrap(StoredAdvertisementPricing[source]["a1"]).scheduling_window.value
         > U64_MAX
    /\ propose_matching(Stores, Matcher, OneSource(TheJob, source, 0), now, TRUE).err
         = "CalculationOverflow"

\* one source has a deadline that the job meets exactly and exceeds when delayed,
\* another a delta whose sum with now overflows
C22_DeadlineMetDeltaOverflows ==
    \E source, other \in Providers : DeadlineMetExactly(source) /\ DeltaOverflows(other)

\* the stores with the network requests of the job set to none
WithoutNetworkRequests(job_id) ==
    [Stores EXCEPT !.reg[job_id] = Some([Unwrap(@) EXCEPT !.network_requests = 0])]

\* C23: a slot passes the network quota check iff duration * network_request_quota
\* >= network_requests * 1000 as exact integers: when the inequality is false the
\* call fails with NetworkRequestQuotaExceededInMatch, and when it is true the call
\* ends as it does for a job without network requests.
C23_QuotaComparedExactly ==
    \A job_id \in JobIds, source \in Providers :
        ReachesAdvertisementChecks(job_id, source) =>
            LET registration == Unwrap(StoredJobRegistration[job_id])
                ad == Unwrap(StoredAdvertisementRestriction[source])
                matches == OneSource(job_id, source, 0)
            IN ( /\ propose_matching(WithoutNetworkRequests(job_id), Matcher, matches,
                                     now, TRUE).err = OK )
               => With(propose_matching(Stores, Matcher, matches, now, TRUE).err,
                       LAMBDA err :
                          IF registration.schedule.duration * ad.network_request_quota
                               >= registration.network_requests * 1000
                          THEN err = OK
                          ELSE err = "NetworkRequestQuotaExceededInMatch")

\* the list is absent or names the account
ListAllows(list, account) ==
    list = None \/ account \in { Unwrap(list)[k] : k \in 1..Len(Unwrap(list)) }

\* the job allows the source and the source allows the consumer of the job
SourceAllowed(job_id, source) ==
    ListAllows(Unwrap(StoredJobRegistration[job_id]).allowed_sources, source)
ConsumerAllowed(job_id, source) ==
    ListAllows(Unwrap(StoredAdvertisementRestriction[source]).allowed_consumers,
               job_id[1])

\* the stores with neither a list of allowed sources of the job nor a list of
\* allowed consumers of the source
WithoutWhitelists(job_id, source) ==
    [Stores EXCEPT
       !.reg[job_id] = Some([Unwrap(@) EXCEPT !.allowed_sources = None]),
       !.ad[source] = Some([Unwrap(@) EXCEPT !.allowed_consumers = None])]

\* C24: a propose_matching that is accepted without the lists fails with
\* SourceNotAllowedInMatch when the job has a list of allowed sources that lacks the
\* source, else with ConsumerNotAllowedInMatch when the source has a list of
\* allowed consumers that lacks the consumer of the job, and else succeeds; every
\* step that creates an Assignment is taken with the source allowed by the job and
\* the consumer allowed by the source.
C24_AssignedOnlyIfWhitelisted ==
    /\ [](\A job_id \in JobIds, source \in Providers :
            ( /\ ReachesAdvertisementChecks(job_id, source)
              /\ propose_matching(WithoutWhitelists(job_id, source), Matcher,
                                  OneSource(job_id, source, 0), now, TRUE).err = OK )
            => propose_matching(Stores, Matcher, OneSource(job_id, source, 0), now,
                                TRUE).err
                 = IF ~SourceAllowed(job_id, source) THEN "SourceNotAllowedInMatch"
                   ELSE IF ~ConsumerAllowed(job_id, source)
                   THEN "ConsumerNotAllowedInMatch"
                   ELSE OK)
    /\ [][\A source \in Providers, job_id \in JobIds :
            (~IsSome(StoredMatches[source][job_id])
               /\ IsSome(StoredMatches'[source][job_id])) =>
                /\ IsSome(StoredJobRegistration[job_id])
                /\ IsSome(StoredAdvertisementRestriction[source])
                /\ SourceAllowed(job_id, source)
                /\ ConsumerAllowed(job_id, source)]_vars

\* a source on the list of the job whose own list names the consumer holds an
\* Assignment, and another source on the list of the job is refused because its
\* list lacks the consumer
C24_ListedAssignedUnlistedRefused ==
    \E source, other \in Providers :
        /\ Holds(source, TheJob)
        /\ IsSome(StoredJobRegistration[TheJob])
        /\ Unwrap(StoredJobRegistration[TheJob]).allowed_sources = Some(<< other, source >>)
        /\ Unwrap(StoredAdvertisementRestriction[source]).allowed_consumers
             = Some(<< TheJob[1] >>)
        /\ propose_matching(Stores, Matcher, OneSource(TheJob, other, 0), now,
                            TRUE).err = "ConsumerNotAllowedInMatch"

\* C25: every slot of a job is priced in the reward asset of the job: a call whose
\* first slot names a source without an advertisement fails with
\* AdvertisementNotFound, one whose first slot names a source with an advertisement
\* and no pricing for the reward asset of the job fails with
\* AdvertisementPricingNotFound, and the fee_per_execution of every stored
\* Assignment of a registered job is in the reward asset of the job.
C25_PricedInRewardAsset ==
    /\ \A matches \in MatchingInputs :
          ( /\ Len(matches) = 1
            /\ IsSome(StoredJobRegistration[matches[1].job_id])
            /\ now < Unwrap(StoredJobRegistration[matches[1].job_id]).schedule.start_time
            /\ Len(matches[1].sources)
                 = Unwrap(StoredJobRegistration[matches[1].job_id]).extra.slots )
          => LET job_id == matches[1].job_id
                 source == matches[1].sources[1].source
                 err == propose_matching(Stores, Matcher, matches, now, TRUE).err
             IN /\ ~IsSome(StoredAdvertisementRestriction[source])
                     => err = "AdvertisementNotFound"
                /\ ( /\ IsSome(StoredAdvertisementRestriction[source])
                      /\ ~IsSome(StoredAdvertisementPricing[source][RewardOf(job_id).asset]) )
                     => err = "AdvertisementPricingNotFound"
    /\ \A job_id \in JobIds, source \in Providers :
          (Holds(source, job_id) /\ IsSome(StoredJobRegistration[job_id]))
          => Unwrap(StoredMatches[source][job_id]).fee_per_execution.asset
               = RewardOf(job_id).asset

\* new schedules around the periods [1, 4) and [5, 7) of ScheduleA and ScheduleB
ScheduleInputs ==
    { [duration |-> duration, start_time |-> start_time, end_time |-> end_time,
       interval |-> interval] :
        start_time \in 0..7, end_time \in 1..8,
        interval \in {1, 2, 5}, duration \in {1, 2, 4} }
DelayInputs == {0, 1, 4, U64_MAX}

\* the periods [start_time, end_time) of the schedules do not intersect
PeriodsDisjoint(schedule, other) ==
    schedule.start_time >= other.end_time \/ schedule.end_time <= other.start_time

\* C26: fits_schedule accepts a new schedule against the schedule of a job the
\* source holds whenever the periods [start_time, end_time) of the two are
\* disjoint, for every interval, duration and start_delay of the new schedule and
\* every start_delay of the Assignment held.
C26_DisjointPeriodsFit ==
    \A source \in Providers, job_id \in JobIds :
        (Holds(source, job_id) /\ IsSome(StoredJobRegistration[job_id])) =>
            \A schedule \in ScheduleInputs, start_delay, other_delay \in DelayInputs :
                PeriodsDisjoint(schedule, Unwrap(StoredJobRegistration[job_id]).schedule)
                => /\ fits_one(Stores, job_id,
                               [Unwrap(StoredMatches[source][job_id]) EXCEPT
                                  !.start_delay = other_delay],
                               schedule, start_delay) = OK
                   /\ (\A other \in JobIds \ {job_id} : ~Holds(source, other))
                      => fits_schedule(WithStartDelay(source, job_id, other_delay),
                                       source, schedule, start_delay) = OK

\* a source holds Assignments for two jobs whose periods are disjoint and whose
\* executions, delayed, coincide
C26_DisjointPeriodsAccepted ==
    \E source \in Providers, job_id, other \in JobIds :
        /\ job_id # other
        /\ Holds(source, job_id) /\ Holds(source, other)
        /\ IsSome(StoredJobRegistration[job_id])
        /\ IsSome(StoredJobRegistration[other])
        /\ PeriodsDisjoint(Unwrap(StoredJobRegistration[job_id]).schedule,
                           Unwrap(StoredJobRegistration[other]).schedule)
        /\ Collide(Unwrap(StoredJobRegistration[job_id]).schedule,
                   Unwrap(StoredMatches[source][job_id]).start_delay,
                   Unwrap(StoredJobRegistration[other]).schedule,
                   Unwrap(StoredMatches[source][other]).start_delay)

\* C27: against a held job whose period overlaps that of the new schedule,
\* fits_schedule fails with ScheduleOverlapInMatch iff an execution interval
\* [start, start + duration) of the one intersects one of the other, which is when
\* in the merge of the intervals by start one starts before the previous one ends.
C27_OverlapIffExecutionsIntersect ==
    \A source \in Providers, job_id, other \in JobIds :
        ( /\ job_id # other
          /\ Holds(source, other) /\ ~Holds(source, job_id)
          /\ IsSome(StoredJobRegistration[job_id])
          /\ IsSome(StoredJobRegistration[other])
          /\ ~PeriodsDisjoint(Unwrap(StoredJobRegistration[job_id]).schedule,
                              Unwrap(StoredJobRegistration[other]).schedule) )
        => ( fits_schedule(Stores, source,
                           Unwrap(StoredJobRegistration[job_id]).schedule, 0)
               = "ScheduleOverlapInMatch"
             <=> Collide(Unwrap(StoredJobRegistration[job_id]).schedule, 0,
                         Unwrap(StoredJobRegistration[other]).schedule,
                         Unwrap(StoredMatches[source][other]).start_delay) )

\* the status of the job is Matched or Assigned(n)
MatchedOrAssigned(job_id) ==
    /\ IsSome(StoredJobStatus[job_id])
    /\ Unwrap(StoredJobStatus[job_id]).tag \in {"Matched", "Assigned"}

\* the stores with the status of the job set to Open
WithStatusOpen(job_id) == [Stores EXCEPT !.status[job_id] = Some(Open)]

\* the registrations a consumer tries to replace a stored one with
RegistrationInputs ==
    SlotRegistrations \cup ScheduleRegistrations \cup WhitelistRegistrations

\* C28: while the status of a job is Matched or Assigned(n), register for the same
\* consumer and script fails and leaves the stores as they were, with
\* JobRegistrationUnmodifiable when the registration is accepted for an Open job,
\* and update_allowed_sources fails with JobRegistrationUnmodifiable and leaves the
\* stores as they were.
C28_MatchedRegistrationUnmodifiable ==
    \A job_id \in JobIds :
        (MatchedOrAssigned(job_id) /\ IsSome(StoredJobRegistration[job_id])) =>
            /\ \A registration \in RegistrationInputs, lock_ok \in BOOLEAN :
                  With(register(Stores, job_id[1], registration, now, lock_ok),
                       LAMBDA r :
                          /\ r.err # OK
                          /\ r.st = Stores
                          /\ register(WithStatusOpen(job_id), job_id[1], registration,
                                      now, TRUE).err = OK
                             => r.err = "JobRegistrationUnmodifiable")
            /\ \A updates \in UpdateInputs \cup { << [operation |-> "Add", item |-> "p2"] >> } :
                  With(update_allowed_sources(Stores, job_id[1], job_id[2], updates),
                       LAMBDA r :
                          /\ r.err = "JobRegistrationUnmodifiable"
                          /\ r.st = Stores)

\* the job is Assigned and a registration other than the stored one is refused
\* as unmodifiable
C28_AssignedAndRefused ==
    \E job_id \in JobIds, registration \in RegistrationInputs :
        /\ IsSome(StoredJobStatus[job_id])
        /\ Unwrap(StoredJobStatus[job_id]).tag = "Assigned"
        /\ IsSome(StoredJobRegistration[job_id])
        /\ registration # Unwrap(StoredJobRegistration[job_id])
        /\ register(Stores, job_id[1], registration, now, TRUE).err
             = "JobRegistrationUnmodifiable"

\* C29: while a source holds an Assignment, an advertise of the source leaves its
\* stored pricing variants as they were.
C29_PricingKeptWhileAssigned ==
    \A source \in Providers : HoldsSome(source) =>
        \A advertisement \in PricedAdvertisementInputs :
            advertise(Stores, source, advertisement).st.pricing[source]
              = StoredAdvertisementPricing[source]

CapacityInputs == {0, 1, 2, 5}

\* C30: a successful advertise of a source that has an advertisement sets its
\* remaining capacity to old remaining + new storage_capacity - old
\* storage_capacity, so that advertised minus remaining is as before, and a first
\* advertise sets it to the storage_capacity advertised; the Assignments and the
\* remaining capacities of the other sources are as before.
C30_AdvertiseKeepsCommitted ==
    \A source \in Providers, storage_capacity \in CapacityInputs :
        With(advertise(Stores, source,
                       Advertisement(<< PricingVariant("a1", 1) >>, storage_capacity)),
             LAMBDA r :
                /\ r.err = OK
                /\ r.st.matches = StoredMatches
                /\ \A other \in Providers \ {source} :
                      r.st.cap[other] = StoredStorageCapacity[other]
                /\ IF IsSome(StoredAdvertisementRestriction[source])
                   THEN /\ IsSome(StoredStorageCapacity[source])
                        /\ r.st.cap[source]
                             = Some(Unwrap(StoredStorageCapacity[source]) + storage_capacity
                                      - Unwrap(StoredAdvertisementRestriction[source]).storage_capacity)
                        /\ storage_capacity - Unwrap(r.st.cap[source])
                             = Unwrap(StoredAdvertisementRestriction[source]).storage_capacity
                                 - Unwrap(StoredStorageCapacity[source])
                   ELSE r.st.cap[source] = Some(storage_capacity))

\* a source that holds an Assignment has a negative remaining capacity, and
\* another source has no advertisement yet
C30_NegativeAndFirst ==
    \E source, other \in Providers :
        /\ HoldsSome(source)
        /\ IsSome(StoredStorageCapacity[source])
        /\ Unwrap(StoredStorageCapacity[source]) < 0
        /\ ~IsSome(StoredAdvertisementRestriction[other])

\* the remaining capacity of the source in the stores st, 0 when none is stored
RemainingIn(st, source) == unwrap_or(st.cap[source], 0)

\* C31: a successful propose_matching never takes the remaining capacity of a
\* source from a positive value to a negative one.
C31_MatchingKeepsCapacityNonNegative ==
    \A matches \in GapMatchings :
        With(propose_matching(Stores, Matcher, matches, now, TRUE), LAMBDA r :
           r.err = OK =>
             \A source \in Providers :
                 RemainingIn(Stores, source) > 0 => RemainingIn(r.st, source) >= 0)

SevereErrors == {"JobStatusNotFound", "CapacityNotFound"}

\* C32: in no state reached from the empty stores does a call of deregister,
\* update_allowed_sources, acknowledge_match or propose_matching return
\* JobStatusNotFound or CapacityNotFound.
C32_NoSevereError ==
    /\ \A who \in Consumers, script \in Scripts :
          /\ deregister(Stores, who, script, now).err \notin SevereErrors
          /\ \A updates \in UpdateInputs :
                update_allowed_sources(Stores, who, script, updates).err \notin SevereErrors
    /\ \A source \in Providers, job_id \in JobIds :
          /\ acknowledge_match(Stores, source, job_id).err \notin SevereErrors
          /\ \A start_delay \in Delays :
                propose_matching(Stores, Matcher, OneSource(job_id, source, start_delay),
                                 now, TRUE).err \notin SevereErrors

\* C33: deregister of a registered job succeeds and removes the registration and
\* the status when the status is Open, or when it is Matched or Assigned and the
\* job is overdue (now >= start_time); a Matched or Assigned job that is not
\* overdue is rejected with JobRegistrationUnmodifiable.
C33_DeregisterOpenOrOverdue ==
    \A who \in Consumers, script \in Scripts :
        LET job_id == << who, script >> IN
        (IsSome(StoredJobRegistration[job_id]) /\ IsSome(StoredJobStatus[job_id])) =>
            With(deregister(Stores, who, script, now), LAMBDA r :
               IF \/ Unwrap(StoredJobStatus[job_id]) = Open
                  \/ now >= Unwrap(StoredJobRegistration[job_id]).schedule.start_time
               THEN /\ r.err = OK
                    /\ r.st.reg[job_id] = None
                    /\ r.st.status[job_id] = None
               ELSE r.err = "JobRegistrationUnmodifiable")

\* the calls of propose_matching that name the job once
OneMatchInputs == { matches \in SlotMatchings : Len(matches) = 1 }

\* the executions of the schedule, counted from its start to its end
ExecutionsOf(schedule) ==
    Cardinality({ t \in schedule.start_time..(schedule.end_time - 1) :
                    (t - schedule.start_time) % schedule.interval = 0 })

\* C34: after a successful propose_matching of an Open job the status is Matched,
\* the remaining capacity of each named source is lower by registration.storage,
\* each named source holds an Assignment with its position in the list as slot,
\* the proposed start_delay, acknowledged = false, sla.met = 0 and sla.total =
\* the execution count of the schedule, and one JobRegistrationMatched is emitted.
C34_MatchedAsProposed ==
    \A matches \in OneMatchInputs :
        LET m == matches[1] IN
        (IsSome(StoredJobRegistration[m.job_id]) /\ StoredJobStatus[m.job_id] = Some(Open)) =>
            With(propose_matching(Stores, Matcher, matches, now, TRUE), LAMBDA r :
               r.err = OK =>
                 /\ r.st.status[m.job_id] = Some(Matched)
                 /\ Len(m.sources) = Unwrap(StoredJobRegistration[m.job_id]).extra.slots
                 /\ r.st.ev = << [name |-> "JobRegistrationMatched", m |-> m] >>
                 /\ \A k \in 1..Len(m.sources) :
                       LET source == m.sources[k].source IN
                       /\ r.st.cap[source]
                            = Some(Unwrap(StoredStorageCapacity[source])
                                     - Unwrap(StoredJobRegistration[m.job_id]).storage)
                       /\ IsSome(r.st.matches[source][m.job_id])
                       /\ LET assignment == Unwrap(r.st.matches[source][m.job_id]) IN
                          /\ assignment.slot = k - 1
                          /\ assignment.start_delay = m.sources[k].start_delay
                          /\ assignment.acknowledged = FALSE
                          /\ assignment.sla
                               = [total |-> ExecutionsOf(
                                              Unwrap(StoredJobRegistration[m.job_id]).schedule),
                                  met |-> 0])

\* an Open job of storage 2 can be matched with a delay, and an Open job of two
\* slots can be matched to two sources
C34_OpenJobMatched ==
    /\ StoredJobStatus[TheJob] = Some(Open)
    /\ IsSome(StoredJobRegistration[TheJob])
    /\ \E matches \in OneMatchInputs :
          /\ propose_matching(Stores, Matcher, matches, now, TRUE).err = OK
          /\ \/ Len(matches[1].sources) = 2
             \/ /\ Unwrap(StoredJobRegistration[TheJob]).storage = 2
                /\ matches[1].sources[1].start_delay = 4

\* the stores under a runtime whose asset validator refuses the assets
WithValidatorRefusing(assets) == [Stores EXCEPT !.refused = assets]

\* advertisements that fail when the validator refuses a2: an empty pricing
\* list, a variant in a2, and such a variant after one and after two accepted ones
FailingAdvertisements ==
    { Advertisement(pricing, 5) :
        pricing \in { << >>,
                      << PricingVariant("a2", 2) >>,
                      << PricingVariant("a1", 2), PricingVariant("a2", 2) >>,
                      << PricingVariant("a1", 2), PricingVariant("a1", 3),
                         PricingVariant("a2", 2) >> } }

\* C35: an advertise that fails with EmptyPricing or with the asset validator's
\* rejection of a pricing variant, a later one included, leaves the restriction,
\* the pricing and the remaining capacity of the source as they were and emits no
\* event; with the validator that lets every asset pass only the empty list fails.
C35_FailedAdvertiseLeavesStores ==
    \A source \in Providers, advertisement \in FailingAdvertisements :
        /\ With(advertise(WithValidatorRefusing({"a2"}), source, advertisement), LAMBDA r :
              /\ r.err = IF Len(advertisement.pricing) = 0 THEN "EmptyPricing"
                         ELSE "AssetNotAllowedByBarrier"
              /\ r.st.ad = StoredAdvertisementRestriction
              /\ r.st.pricing = StoredAdvertisementPricing
              /\ r.st.cap = StoredStorageCapacity
              /\ r.st.ev = << >>
              /\ r.st = WithValidatorRefusing({"a2"}))
        /\ With(advertise(Stores, source, advertisement), LAMBDA r :
              IF Len(advertisement.pricing) = 0
              THEN r.err = "EmptyPricing" /\ r.st = Stores
              ELSE r.err = OK)

\* a source has an advertisement of another capacity and price than the failing
\* advertisements, and a source has none
C35_AdvertisedAndNot ==
    \E source, other \in Providers :
        /\ IsSome(StoredAdvertisementRestriction[source])
        /\ Unwrap(StoredAdvertisementRestriction[source]).storage_capacity # 5
        /\ StoredAdvertisementPricing[source]["a1"] = Some(PricingVariant("a1", 1))
        /\ ~IsSome(StoredAdvertisementRestriction[other])

\* C36: every stored Assignment is of a job whose registration and status are
\* stored, the status being Matched or Assigned.
C36_AssignmentsOfRegisteredJobs ==
    \A source \in Providers, job_id \in JobIds :
        Holds(source, job_id) =>
            /\ IsSome(StoredJobRegistration[job_id])
            /\ IsSome(StoredJobStatus[job_id])
            /\ Unwrap(StoredJobStatus[job_id]).tag \in {"Matched", "Assigned"}

\* the sources whose Assignment for the job is acknowledged
AcknowledgedSources(job_id) ==
    { source \in Providers :
        /\ Holds(source, job_id)
        /\ Unwrap(StoredMatches[source][job_id]).acknowledged }

\* C37: a job has the status Assigned(n) iff n >= 1 of its Assignments are
\* acknowledged, and Matched iff it has Assignments of which none is
\* acknowledged.
C37_StatusCountsAcknowledgements ==
    \A job_id \in JobIds :
        IF AcknowledgedSources(job_id) # {}
        THEN StoredJobStatus[job_id] = Some(Assigned(Cardinality(AcknowledgedSources(job_id))))
        ELSE IF \E source \in Providers : Holds(source, job_id)
        THEN StoredJobStatus[job_id] = Some(Matched)
        ELSE StoredJobStatus[job_id] \in {None, Some(Open)}

\* the calls that follow the registration of the job: propose_matching with one
\* source, acknowledge_match, and report with last false or true
CallInputs ==
    [op : {"propose_matching", "acknowledge_match"}, source : Providers, last : {FALSE}]
      \cup [op : {"report"}, source : Providers, last : BOOLEAN]

MaxCalls == 5

\* the stores after the call in the stores st, the log of payments continued
AfterCall(st, call, job_id) ==
    IF call.op = "propose_matching"
    THEN propose_matching(st, Matcher, OneSource(job_id, call.source, 0), now, TRUE).st
    ELSE IF call.op = "acknowledge_match"
    THEN acknowledge_match(st, call.source, job_id).st
    ELSE report(st, call.source, job_id, call.last, "Success", now, TRUE).st

RECURSIVE AfterCalls(_, _, _, _)
AfterCalls(st, calls, i, job_id) ==
    IF i > Len(calls) THEN st
    ELSE AfterCalls(AfterCall(st, calls[i], job_id), calls, i + 1, job_id)

\* the amounts of the pay_reward and pay_matcher_reward calls in the log
RECURSIVE PaidOut(_)
PaidOut(pay) ==
    IF pay = << >> THEN 0
    ELSE (IF Head(pay).kind \in {"pay_reward", "pay_matcher_reward"}
          THEN Head(pay).reward.amount ELSE 0) + PaidOut(Tail(pay))

\* the job is registered and Open, and no source holds an Assignment for it
Fresh(job_id) ==
    /\ IsSome(StoredJobRegistration[job_id])
    /\ StoredJobStatus[job_id] = Some(Open)
    /\ AssignedSources(job_id) = {}

\* C38: whatever calls follow the registration of a job, the fees paid to its
\* sources and the remainders paid to matchers on its account never exceed
\* total_reward_amount = reward * slots * execution_count, the amount locked.
C38_PaidWithinLocked ==
    Fresh(TheJob) =>
        \A calls \in SeqsOf(CallInputs, MaxCalls) :
            PaidOut(AfterCalls(Stores, calls, 1, TheJob).pay)
              <= Unwrap(total_reward_amount(Unwrap(StoredJobRegistration[TheJob])))

\* the storage of the registered jobs for which the source holds an Assignment
RECURSIVE CommittedFrom(_, _)
CommittedFrom(source, i) ==
    IF i > Len(JobOrder) THEN 0
    ELSE (IF Holds(source, JobOrder[i]) /\ IsSome(StoredJobRegistration[JobOrder[i]])
          THEN Unwrap(StoredJobRegistration[JobOrder[i]]).storage ELSE 0)
         + CommittedFrom(source, i + 1)

\* C39: for every source with an advertisement whose Assignments are all of
\* registered jobs, the advertised storage_capacity minus the remaining capacity
\* is the sum of registration.storage over the jobs of its Assignments.
C39_CommittedIsReserved ==
    \A source \in Providers :
        ( /\ IsSome(StoredAdvertisementRestriction[source])
          /\ \A job_id \in JobIds :
                Holds(source, job_id) => IsSome(StoredJobRegistration[job_id]) )
        => /\ IsSome(StoredStorageCapacity[source])
           /\ Unwrap(StoredAdvertisementRestriction[source]).storage_capacity
                - Unwrap(StoredStorageCapacity[source])
              = CommittedFrom(source, 1)

\* the source holds an Assignment for the job and has reported all its executions
Exhausted(source, job_id) ==
    /\ Holds(source, job_id)
    /\ Unwrap(StoredMatches[source][job_id]).sla.met
         = Unwrap(StoredMatches[source][job_id]).sla.total

\* no call removes or changes the reports of an Assignment once all its
\* executions are reported
ExhaustedStaysHeld ==
    [][\A source \in Providers, job_id \in JobIds :
          Exhausted(source, job_id) => Exhausted(source, job_id)']_vars

\* C40: an Assignment whose source has reported all sla.total executions can
\* still be removed: a report of the source with last = true, the only call that
\* removes an Assignment, succeeds and removes it.
C40_ExhaustedAssignmentRemovable ==
    \A source \in Providers, job_id \in JobIds :
        Exhausted(source, job_id) =>
            With(report(Stores, source, job_id, TRUE, "Success", now, TRUE), LAMBDA r :
               r.err = OK /\ ~IsSome(r.st.matches[source][job_id]))

====
